---- MODULE Spec2Model ----
(***************************************************************************)
(* A model of the cohort pipeline of ICU_Multiclass_Classifier:            *)
(*   - add_diagnosis of the eICU and of the MIMIC adapter, with the two     *)
(*     code mappings of extra/mappings.py;                                  *)
(*   - the chunked chart loaders of both adapters;                          *)
(*   - create_chart_features of extra/charts.py.                            *)
(* Tables are sequences of records in row order.  A missing value (NaN) of  *)
(* a text column is NaN, of a code column NullCode.  Codes are sequences of *)
(* one-character strings, so that slicing, splitting and stripping are      *)
(* computed as the code computes them.                                      *)
(***************************************************************************)
EXTENDS Integers, Sequences, FiniteSets, Bags, TLC

VARIABLES
    pcD,        \* diagnosis: "idle" before add_diagnosis is called, then the adapter that ran
    diagIn,     \* diagnosis: the arguments and files of the call
    diagOut,    \* diagnosis: the table add_diagnosis returned
    diagLocals, \* diagnosis: diag_df after _standardize_icd, icustays_df as passed
                \* to map_icd_to_css, and as returned by it (mapped)
    pcL,        \* loader: "idle", "reading" (inside the chunk loop), "done" or "raised"
    load,       \* loader: which loader runs, its arguments and its source file
    pos,        \* loader: the number of source rows the chunk iterator has yielded
    chunk,      \* loader: the loop variable, the chunk read last
    count,      \* loader: the chunk counter of load_charts
    results,    \* loader: the list of filtered chunks
    ret,        \* loader: the table the loader returned
    pcA,        \* aggregation: "idle" before create_chart_features is called, then "done"
    aggIn,      \* aggregation: the long-format table passed to create_chart_features
    aggOut,     \* aggregation: the wide table create_chart_features returned
    featIn,     \* features: the arguments and source files of add_charts_features
    featOut,    \* features: the cohort table add_charts_features returned
    pcP,        \* patients: the position inside add_patient_features or load_patients
    patIn,      \* patients: the arguments and source files of the call
    patDf,      \* patients: the local icustays_df of the running function
    patCalls,   \* patients: the helper functions called so far, in order
    pcM,        \* constructor: the next step of MimicLoad._load_preprocessed_data
    self,       \* constructor: the attributes of the MimicLoad object
    calls       \* constructor: the pipeline functions called so far, with their arguments

diagVars == <<pcD, diagIn, diagOut, diagLocals>>

loadVars == <<pcL, load, pos, chunk, count, results, ret>>

aggVars == <<pcA, aggIn, aggOut, featIn, featOut>>

patVars == <<pcP, patIn, patDf, patCalls>>

pipeVars == <<pcM, self, calls>>

PatOff ==
    /\ pcP = "off" /\ patIn = [source |-> "none"] /\ patDf = <<>> /\ patCalls = <<>>

PipeOff ==
    /\ pcM = "off" /\ self = [target |-> "none"] /\ calls = <<>>

vars == <<pcD, diagIn, diagOut, diagLocals, pcL, load, pos, chunk, count, results, ret,
          pcA, aggIn, aggOut, featIn, featOut,
         pcP, patIn, patDf, patCalls, pcM, self, calls>>

-----------------------------------------------------------------------------
(* Values *)

NullCode == <<"NaN">>

\* The locals of add_diagnosis before the call.
NoLocals == [diag_df |-> <<>>, icustays_df |-> <<>>, mapped |-> <<>>]

\* A cell of a numeric or time column: a number, NaN (an empty field), or text
\* that is no number (no timestamp).
Num(n) == [tag |-> "num", n |-> n]
NaN == [tag |-> "nan", n |-> 0]
BadText == [tag |-> "str", n |-> 0]

\* Characters str.strip() removes.
Whitespace == {" "}

-----------------------------------------------------------------------------
(* Table helpers: the pandas operations the code uses *)

\* All tables of at most n rows drawn from a set of rows.
SeqsUpTo(S, n) == UNION {[1..k -> S] : k \in 0..n}

\* The values of a column.
Column(tbl, col) == {tbl[i][col] : i \in DOMAIN tbl}

\* The row positions of one group of a groupby on col.
GroupIdx(tbl, col, key) == {i \in DOMAIN tbl : tbl[i][col] = key}

\* One row per row position of a sequence of positions (DataFrame.loc[labels]).
Loc(tbl, idx) == [k \in DOMAIN idx |-> tbl[idx[k]]]

\* The concatenation of a sequence of tables.
RECURSIVE Concat(_)
Concat(tbls) == IF tbls = <<>> THEN <<>> ELSE Head(tbls) \o Concat(Tail(tbls))

\* A set of integers as an ascending sequence (groupby sorts its group keys).
RECURSIVE SortedSeq(_)
SortedSeq(S) ==
    IF S = {} THEN <<>>
    ELSE LET m == CHOOSE x \in S : \A y \in S : x <= y
         IN <<m>> \o SortedSeq(S \ {m})

\* str[:3]
Prefix3(code) == SubSeq(code, 1, IF Len(code) < 3 THEN Len(code) ELSE 3)

\* str.split(",")[0]: the text before the first comma.
RECURSIVE FirstToken(_)
FirstToken(code) ==
    IF code = <<>> \/ Head(code) = "," THEN <<>>
    ELSE <<Head(code)>> \o FirstToken(Tail(code))

RECURSIVE LStrip(_)
LStrip(code) ==
    IF code # <<>> /\ Head(code) \in Whitespace THEN LStrip(Tail(code)) ELSE code

RECURSIVE RStrip(_)
RStrip(code) ==
    IF code # <<>> /\ code[Len(code)] \in Whitespace
    THEN RStrip(SubSeq(code, 1, Len(code) - 1))
    ELSE code

\* str.strip()
Strip(code) == RStrip(LStrip(code))

\* str.strip("'")
RECURSIVE StripQuotes(_)
StripQuotes(text) ==
    IF text = NullCode THEN NullCode
    ELSE IF text # <<>> /\ Head(text) = "'" THEN StripQuotes(Tail(text))
    ELSE IF text # <<>> /\ text[Len(text)] = "'"
    THEN StripQuotes(SubSeq(text, 1, Len(text) - 1))
    ELSE text

-----------------------------------------------------------------------------
(* extra/mappings.py *)

\* _read_css_mapping: the quotes around every value of the file are stripped;
\* the columns kept are the code, CCSR CATEGORY 1 and its description.
ReadCssMapping(file) ==
    [i \in DOMAIN file |->
        [icd_10_cm_code |-> StripQuotes(file[i].icd_10_cm_code),
         ccsr_category_1 |-> StripQuotes(file[i].ccsr_category_1),
         ccsr_category_1_description |-> StripQuotes(file[i].ccsr_category_1_description)]]

\* Series.replace("", np.nan)
ReplaceEmpty(text) == IF text = <<>> THEN NullCode ELSE text

\* The rows a left merge yields for one row of icustays_df: one per mapping row
\* with its icd10_code, and one with missing values when there is none.
CssRowsFor(row, mapping) ==
    LET hits == SelectSeq(mapping, LAMBDA m : m.icd_10_cm_code = row.icd10_code)
        keep == DOMAIN row \ {"icd10_code"}
        With(cat, desc) ==
            [f \in keep \cup {"ccsr_category_1", "ccsr_category_1_description"} |->
                IF f = "ccsr_category_1" THEN ReplaceEmpty(cat)
                ELSE IF f = "ccsr_category_1_description" THEN ReplaceEmpty(desc)
                ELSE row[f]]
    IN IF hits = <<>> THEN <<With(NullCode, NullCode)>>
       ELSE [j \in DOMAIN hits |->
                With(hits[j].ccsr_category_1, hits[j].ccsr_category_1_description)]

\* map_icd_to_css: left merge on the ICD-10 code, "" replaced by NaN, the code
\* columns dropped.  No row is dropped.
map_icd_to_css(icustays_df, file) ==
    LET mapping == ReadCssMapping(file)
    IN Concat([i \in DOMAIN icustays_df |-> CssRowsFor(icustays_df[i], mapping)])

\* A variant of icd_9to10 that takes the last matching row of the mapping.
icd_9to10_Last(mapping, icd) ==
    LET hits == SelectSeq(mapping, LAMBDA m : m.diagnosis_code = Prefix3(icd))
    IN IF hits = <<>> THEN NullCode ELSE hits[Len(hits)].icd10cm

\* icd_9to10 (the same in both adapters): the icd10cm of the first row of the
\* mapping whose diagnosis_code is icd[:3], NaN when there is none.
icd_9to10(mapping, icd) ==
    LET hits == SelectSeq(mapping, LAMBDA m : m.diagnosis_code = Prefix3(icd))
    IN IF hits = <<>> THEN NullCode ELSE hits[1].icd10cm

\* A variant of the filter that keeps every row.
FilterDiagnosisCodes_KeepAll(df, diagnosis_codes) == df

\* A variant of the filter that treats only None as "no list".
FilterDiagnosisCodes_UnlessNone(df, diagnosis_codes) ==
    IF diagnosis_codes.is_none THEN df
    ELSE SelectSeq(df, LAMBDA r : r.ccsr_category_1 \in diagnosis_codes.items)

\* if diagnosis_codes: df[df["CCSR CATEGORY 1"].isin(diagnosis_codes)]
\* (None and the empty list are both false in Python).
FilterDiagnosisCodes(df, diagnosis_codes) ==
    IF diagnosis_codes.is_none \/ diagnosis_codes.items = {} THEN df
    ELSE SelectSeq(df, LAMBDA r : r.ccsr_category_1 \in diagnosis_codes.items)

-----------------------------------------------------------------------------
(* eicu_pipeline/utils/diagnosis.py *)

\* A variant of the filter that keeps every priority.
EicuKeepPrimary_AnyPriority(diag_df, cut_off) ==
    SelectSeq(diag_df, LAMBDA r : r.diagnosisoffset <= cut_off)

\* Keep only primary diagnosis, within the cutoff.
EicuKeepPrimary(diag_df, cut_off) ==
    SelectSeq(diag_df, LAMBDA r :
        r.diagnosispriority = "Primary" /\ r.diagnosisoffset <= cut_off)

\* idxmax of diagnosisoffset in one group: the first position of the maximum.
EicuIdxMax(diag_df, stay) ==
    LET g == GroupIdx(diag_df, "patientunitstayid", stay)
    IN CHOOSE i \in g : \A j \in g :
          /\ diag_df[j].diagnosisoffset <= diag_df[i].diagnosisoffset
          /\ (diag_df[j].diagnosisoffset = diag_df[i].diagnosisoffset => i <= j)

\* Keep only the last diagnosis of each stay.
EicuKeepLast(diag_df) ==
    LET stays == SortedSeq(Column(diag_df, "patientunitstayid"))
    IN Loc(diag_df, [k \in DOMAIN stays |-> EicuIdxMax(diag_df, stays[k])])

\* A variant of the clean-up that keeps the whole code field.
EicuCleanCodes_Whole(diag_df) ==
    SelectSeq(diag_df, LAMBDA r : r.icd9code # NullCode)

\* dropna(subset=["icd9code"]), then the first comma-separated token, stripped.
EicuCleanCodes(diag_df) ==
    LET kept == SelectSeq(diag_df, LAMBDA r : r.icd9code # NullCode)
    IN [i \in DOMAIN kept |->
          [kept[i] EXCEPT !.icd9code = Strip(FirstToken(kept[i].icd9code))]]

\* _standardize_icd (eICU): every row is an ICD-9 row and gets the converted code
\* in a new column.
EicuStandardizeIcd(mapping, df) ==
    [i \in DOMAIN df |->
        [patientunitstayid |-> df[i].patientunitstayid,
         icd9code |-> df[i].icd9code,
         diagnosispriority |-> df[i].diagnosispriority,
         diagnosisoffset |-> df[i].diagnosisoffset,
         icd10_code |-> icd_9to10(mapping, df[i].icd9code)]]

\* icustays_df.merge(diag_df, on="patientunitstayid", how="left")
EicuMergeRowsFor(row, diag_df) ==
    LET hits == SelectSeq(diag_df, LAMBDA d :
                    d.patientunitstayid = row.patientunitstayid)
    IN IF hits = <<>> THEN <<[patientunitstayid |-> row.patientunitstayid,
                              icd10_code |-> NullCode]>>
       ELSE [j \in DOMAIN hits |-> [patientunitstayid |-> row.patientunitstayid,
                                    icd10_code |-> hits[j].icd10_code]]

EicuMerge(icustays_df, diag_df) ==
    Concat([i \in DOMAIN icustays_df |-> EicuMergeRowsFor(icustays_df[i], diag_df)])

\* A variant of add_diagnosis (eICU) that drops the rows without a code before
\* it keeps the last one.
EicuDiagDf_DropFirst(diag_file, icd_map, cutoff_h) ==
    LET cut_off == cutoff_h * 60
        primary == EicuKeepPrimary(diag_file, cut_off)
        coded == SelectSeq(primary, LAMBDA r : r.icd9code # NullCode)
    IN EicuStandardizeIcd(icd_map, EicuCleanCodes(EicuKeepLast(coded)))

\* add_diagnosis (eICU) up to _standardize_icd: diag_df with its icd10_code.
EicuDiagDf(diag_file, icd_map, cutoff_h) ==
    LET cut_off == cutoff_h * 60
        primary == EicuKeepPrimary(diag_file, cut_off)
        last == EicuKeepLast(primary)
    IN EicuStandardizeIcd(icd_map, EicuCleanCodes(last))

\* The merge with icustays and the drop of the stays with no diagnosis.
EicuWithDiagnosis(icustays_df, diag_df) ==
    SelectSeq(EicuMerge(icustays_df, diag_df), LAMBDA r : r.icd10_code # NullCode)

\* add_diagnosis (eICU)
EicuAddDiagnosis(icustays_df, diag_file, icd_map, css_file, diagnosis_codes, cutoff_h) ==
    LET diag_df == EicuDiagDf(diag_file, icd_map, cutoff_h)
        with_diag == EicuWithDiagnosis(icustays_df, diag_df)
        mapped == map_icd_to_css(with_diag, css_file)
    IN FilterDiagnosisCodes(mapped, diagnosis_codes)

-----------------------------------------------------------------------------
(* mimic_pipeline/utils/diagnosis.py *)

\* A variant of _standardize_icd (MIMIC) that converts the rows of every version.
MimicStandardizeIcd_ConvertAll(mapping, df) ==
    [i \in DOMAIN df |->
        [hadm_id |-> df[i].hadm_id,
         seq_num |-> df[i].seq_num,
         icd_code |-> df[i].icd_code,
         icd_version |-> df[i].icd_version,
         icd10_code |-> icd_9to10(mapping, df[i].icd_code)]]

\* _standardize_icd (MIMIC): icd10_code is icd_code, converted for version 9 rows.
MimicStandardizeIcd(mapping, df) ==
    [i \in DOMAIN df |->
        [hadm_id |-> df[i].hadm_id,
         seq_num |-> df[i].seq_num,
         icd_code |-> df[i].icd_code,
         icd_version |-> df[i].icd_version,
         icd10_code |-> IF df[i].icd_version = 9
                        THEN icd_9to10(mapping, df[i].icd_code)
                        ELSE df[i].icd_code]]

\* A variant of the merge that matches the diagnosis rows on the stay.
MimicMergeRowsFor_ByStay(row, diag_df) ==
    LET hits == SelectSeq(diag_df, LAMBDA d : d.hadm_id = row.stay_id)
    IN IF hits = <<>> THEN <<[stay_id |-> row.stay_id, hadm_id |-> row.hadm_id,
                              seq_num |-> 0, icd10_code |-> NullCode]>>
       ELSE [j \in DOMAIN hits |-> [stay_id |-> row.stay_id, hadm_id |-> row.hadm_id,
                                    seq_num |-> hits[j].seq_num,
                                    icd10_code |-> hits[j].icd10_code]]

\* icustays_df.merge(diag_df[["hadm_id", "seq_num", "icd10_code"]], on="hadm_id", how="left")
MimicMergeRowsFor(row, diag_df) ==
    LET hits == SelectSeq(diag_df, LAMBDA d : d.hadm_id = row.hadm_id)
    IN IF hits = <<>> THEN <<[stay_id |-> row.stay_id, hadm_id |-> row.hadm_id,
                              seq_num |-> 0, icd10_code |-> NullCode]>>
       ELSE [j \in DOMAIN hits |-> [stay_id |-> row.stay_id, hadm_id |-> row.hadm_id,
                                    seq_num |-> hits[j].seq_num,
                                    icd10_code |-> hits[j].icd10_code]]

MimicMerge(icustays_df, diag_df) ==
    Concat([i \in DOMAIN icustays_df |-> MimicMergeRowsFor(icustays_df[i], diag_df)])

\* idxmin of seq_num in one group: the first position of the minimum.
MimicIdxMin(df, stay) ==
    LET g == GroupIdx(df, "stay_id", stay)
    IN CHOOSE i \in g : \A j \in g :
          /\ df[i].seq_num <= df[j].seq_num
          /\ (df[j].seq_num = df[i].seq_num => i <= j)

\* Keep diagnosis of most priority (lowest seq_num), then drop seq_num.
MimicKeepFirst(df) ==
    LET stays == SortedSeq(Column(df, "stay_id"))
    IN [k \in DOMAIN stays |->
          LET r == df[MimicIdxMin(df, stays[k])]
          IN [stay_id |-> r.stay_id, hadm_id |-> r.hadm_id, icd10_code |-> r.icd10_code]]

\* The merge of the rows with an icd10_code, the drop of the stays with no
\* diagnosis and the choice of one row per stay.
MimicWithDiagnosis(icustays_df, std) ==
    LET diag_df == SelectSeq(std, LAMBDA r : r.icd10_code # NullCode)
        merged == MimicMerge(icustays_df, diag_df)
        with_diag == SelectSeq(merged, LAMBDA r : r.icd10_code # NullCode)
    IN MimicKeepFirst(with_diag)

\* add_diagnosis (MIMIC)
MimicAddDiagnosis(icustays_df, diag_file, icd_map, css_file, diagnosis_codes) ==
    LET std == MimicStandardizeIcd(icd_map, diag_file)
        first == MimicWithDiagnosis(icustays_df, std)
        mapped == map_icd_to_css(first, css_file)
    IN FilterDiagnosisCodes(mapped, diagnosis_codes)

-----------------------------------------------------------------------------
(* The diagnosis inputs: the files add_diagnosis reads and its arguments *)

MaxDiagRows == 2
CutoffH == 3

\* ICD-10 codes, categories and descriptions.
T83 == <<"T", "8", "3">>
M86 == <<"M", "8", "6">>
CatI == <<"I">>
CatS == <<"S">>
Quoted(text) == <<"'">> \o text \o <<"'">>

\* ICD-9 code fields: a plain code, a padded code followed by a second one,
\* a field starting with a separator, a code with no mapping row.
c9967 == <<"9", "9", "6", ".", "7">>
c411 == <<" ", "4", "1", "1", ",", "9">>
cSep == <<",", "9", "9", "6">>
c9999 == <<"9", "9", "9", "9">>

\* mappings/ICD9_to_ICD10_mapping.txt as read by read_icd_mapping: two rows
\* share the code 996, and one legacy code reads like an ICD-10 code (as the
\* ICD-9 E and V codes do).
IcdMapFile ==
    << [diagnosis_code |-> <<"9", "9", "6">>, icd10cm |-> T83],
       [diagnosis_code |-> <<"9", "9", "6">>, icd10cm |-> M86],
       [diagnosis_code |-> <<"4", "1", "1">>, icd10cm |-> M86],
       [diagnosis_code |-> T83, icd10cm |-> M86] >>

\* mappings/DXCCSR_v2025-1.csv, its values quoted: with an empty category, and
\* with two rows for one code and no row for another.
CssRow(code, cat, desc) ==
    [icd_10_cm_code |-> Quoted(code), ccsr_category_1 |-> Quoted(cat),
     ccsr_category_1_description |-> Quoted(desc)]

CssFiles ==
    { << CssRow(T83, CatI, <<"i">>), CssRow(M86, <<>>, <<>>) >>,
      << CssRow(T83, CatI, <<"i">>), CssRow(T83, CatS, <<"s">>) >>,
      << CssRow(T83, CatI, <<"i">>), CssRow(M86, <<" ">>, <<" ">>) >> }

\* diagnosis_codes: None, [] or a list of categories.
AllowLists ==
    { [is_none |-> TRUE, items |-> {}],
      [is_none |-> FALSE, items |-> {}],
      [is_none |-> FALSE, items |-> {CatI}] }

EicuCohort == << [patientunitstayid |-> 1], [patientunitstayid |-> 2] >>

EicuDiagRows ==
    [patientunitstayid : {1, 2},
     icd9code : {NullCode, c9967, c411, cSep, c9999},
     diagnosispriority : {"Primary", "Other"},
     diagnosisoffset : {170, 180, 190}]

MimicCohorts ==
    { << [stay_id |-> 1, hadm_id |-> 1], [stay_id |-> 2, hadm_id |-> 1] >>,
      << [stay_id |-> 1, hadm_id |-> 1], [stay_id |-> 2, hadm_id |-> 2] >> }

MimicCodes ==
    { [icd_code |-> c9967, icd_version |-> 9],
      [icd_code |-> c9999, icd_version |-> 9],
      [icd_code |-> T83, icd_version |-> 10],
      [icd_code |-> M86, icd_version |-> 10] }

MimicDiagRows ==
    { [hadm_id |-> h, seq_num |-> n, icd_code |-> c.icd_code,
       icd_version |-> c.icd_version] : h \in {1, 2}, n \in {1, 2}, c \in MimicCodes }

-----------------------------------------------------------------------------
(* The diagnosis calls *)

\* Before the call: the mapping file under mappings/ and the diagnosis_codes the
\* pipeline was constructed with.
DiagInit ==
    /\ PatOff /\ PipeOff
    /\ pcD = "idle"
    /\ \E css \in CssFiles, codes \in AllowLists :
          diagIn = [adapter |-> "none", css_file |-> css, diagnosis_codes |-> codes]
    /\ diagOut = <<>>
    /\ diagLocals = NoLocals
    /\ pcL = "off" /\ load = [loader |-> "none"] /\ pos = 0 /\ chunk = <<>>
    /\ count = 0 /\ results = <<>> /\ ret = <<>>
    /\ pcA = "off" /\ aggIn = <<>> /\ aggOut = <<>>
    /\ featIn = [adapter |-> "none"] /\ featOut = <<>>

\* One call of the eICU add_diagnosis, on any diagnosis.csv.gz.
CallEicuAddDiagnosis ==
    /\ pcD = "idle"
    /\ \E diag \in SeqsUpTo(EicuDiagRows, MaxDiagRows) :
          /\ diagIn' = [adapter |-> "eicu", icustays_df |-> EicuCohort,
                        diag_file |-> diag, icd_map |-> IcdMapFile,
                        css_file |-> diagIn.css_file,
                        diagnosis_codes |-> diagIn.diagnosis_codes,
                        cutoff_h |-> CutoffH]
          /\ diagOut' = EicuAddDiagnosis(EicuCohort, diag, IcdMapFile, diagIn.css_file,
                                         diagIn.diagnosis_codes, CutoffH)
          /\ diagLocals' =
                LET diag_df == EicuDiagDf(diag, IcdMapFile, CutoffH)
                    with_diag == EicuWithDiagnosis(EicuCohort, diag_df)
                IN [diag_df |-> diag_df,
                    icustays_df |-> with_diag,
                    mapped |-> map_icd_to_css(with_diag, diagIn.css_file)]
    /\ pcD' = "eicu"
    /\ UNCHANGED <<loadVars, aggVars, patVars, pipeVars>>

\* One call of the MIMIC add_diagnosis, on any diagnoses_icd.csv.gz and cohort.
CallMimicAddDiagnosis ==
    /\ pcD = "idle"
    /\ \E diag \in SeqsUpTo(MimicDiagRows, MaxDiagRows), cohort \in MimicCohorts :
          /\ diagIn' = [adapter |-> "mimic", icustays_df |-> cohort,
                        diag_file |-> diag, icd_map |-> IcdMapFile,
                        css_file |-> diagIn.css_file,
                        diagnosis_codes |-> diagIn.diagnosis_codes,
                        cutoff_h |-> CutoffH]
          /\ diagOut' = MimicAddDiagnosis(cohort, diag, IcdMapFile, diagIn.css_file,
                                          diagIn.diagnosis_codes)
          /\ diagLocals' =
                LET diag_df == MimicStandardizeIcd(IcdMapFile, diag)
                    first == MimicWithDiagnosis(cohort, diag_df)
                IN [diag_df |-> diag_df,
                    icustays_df |-> first,
                    mapped |-> map_icd_to_css(first, diagIn.css_file)]
    /\ pcD' = "mimic"
    /\ UNCHANGED <<loadVars, aggVars, patVars, pipeVars>>

DiagNext == CallEicuAddDiagnosis \/ CallMimicAddDiagnosis

SpecDiag == DiagInit /\ [][DiagNext]_vars

-----------------------------------------------------------------------------
(* Claims about add_diagnosis *)

DiagDone == pcD # "idle"

\* The entity key of a row of the returned cohort.
EntityKey(row) ==
    IF diagIn.adapter = "eicu" THEN row.patientunitstayid ELSE row.stay_id

ResultKeys == {EntityKey(diagOut[i]) : i \in DOMAIN diagOut}

\* C1: every row of the cohort returned by add_diagnosis, of either adapter and
\* for every diagnosis_codes (None included), has a non-null CCSR CATEGORY 1.
C1_EveryRowHasCategory ==
    DiagDone => \A i \in DOMAIN diagOut : diagOut[i].ccsr_category_1 # NullCode

\* The legacy->intermediate table has no row for the first three characters.
NoLegacyMatch(code) ==
    \A k \in DOMAIN diagIn.icd_map : diagIn.icd_map[k].diagnosis_code # Prefix3(code)

\* eICU: the positions of a stay's Primary rows within the cutoff, and the one
\* the priority rule chooses (maximum offset, the first of equal ones).
EicuCandidates(stay) ==
    {i \in DOMAIN diagIn.diag_file :
        /\ diagIn.diag_file[i].patientunitstayid = stay
        /\ diagIn.diag_file[i].diagnosispriority = "Primary"
        /\ diagIn.diag_file[i].diagnosisoffset <= diagIn.cutoff_h * 60}

EicuChosen(stay) ==
    CHOOSE i \in EicuCandidates(stay) : \A j \in EicuCandidates(stay) :
        \/ diagIn.diag_file[j].diagnosisoffset < diagIn.diag_file[i].diagnosisoffset
        \/ (diagIn.diag_file[j].diagnosisoffset = diagIn.diag_file[i].diagnosisoffset
              /\ i <= j)

\* MIMIC: the positions of an admission's diagnosis rows, and the one the
\* priority rule chooses (minimum seq_num, the first of equal ones).
MimicCandidates(hadm) ==
    {i \in DOMAIN diagIn.diag_file : diagIn.diag_file[i].hadm_id = hadm}

MimicChosen(hadm) ==
    CHOOSE i \in MimicCandidates(hadm) : \A j \in MimicCandidates(hadm) :
        \/ diagIn.diag_file[i].seq_num < diagIn.diag_file[j].seq_num
        \/ (diagIn.diag_file[j].seq_num = diagIn.diag_file[i].seq_num /\ i <= j)

\* The chosen record of a cohort row is a legacy record without a 3-character match.
ChosenUnresolved(row) ==
    IF diagIn.adapter = "eicu"
    THEN /\ EicuCandidates(row.patientunitstayid) # {}
         /\ LET c == diagIn.diag_file[EicuChosen(row.patientunitstayid)].icd9code
            IN c # NullCode /\ NoLegacyMatch(Strip(FirstToken(c)))
    ELSE /\ MimicCandidates(row.hadm_id) # {}
         /\ LET r == diagIn.diag_file[MimicChosen(row.hadm_id)]
            IN r.icd_version = 9 /\ NoLegacyMatch(r.icd_code)

\* C2: when the record the priority rule chooses for an entity has a legacy code
\* with no 3-character match, the entity is absent from the result, whatever
\* other diagnosis rows it has.
C2_ChosenUnresolvedExcluded ==
    DiagDone => \A i \in DOMAIN diagIn.icustays_df :
        ChosenUnresolved(diagIn.icustays_df[i])
            => EntityKey(diagIn.icustays_df[i]) \notin ResultKeys

\* C3: the table returned by add_diagnosis never has two rows with the same
\* entity key, for any diagnosis source and any mapping tables.
C3_UniqueEntityKeys ==
    DiagDone => \A i, j \in DOMAIN diagOut :
        i # j => EntityKey(diagOut[i]) # EntityKey(diagOut[j])

-----------------------------------------------------------------------------
(* mimic_pipeline/utils/charts.py: load_charts, one chunk *)

\* pd.Timedelta(hours=cutoff_h), in minutes.
Timedelta(hours) == hours * 60

\* chunk.dropna(subset=["valuenum"]): an empty field goes, text stays.
MimicDropNa(df) == SelectSeq(df, LAMBDA r : r.valuenum # NaN)

\* if valid_items is not None: keep the rows whose itemid is in valid_items.
MimicKeepItems(df, valid_items) ==
    IF valid_items.is_none THEN df
    ELSE SelectSeq(df, LAMBDA r : r.itemid \in valid_items.items)

\* filtered_chunk.merge(icustays_df[["stay_id", "intime"]], how="inner", on stay_id)
MimicMergeIntimeRowsFor(row, icustays_df) ==
    LET hits == SelectSeq(icustays_df, LAMBDA s : s.stay_id = row.stay_id)
    IN [j \in DOMAIN hits |->
          [stay_id |-> row.stay_id, charttime |-> row.charttime, itemid |-> row.itemid,
           valuenum |-> row.valuenum, intime |-> hits[j].intime]]

MimicMergeIntime(df, icustays_df) ==
    Concat([i \in DOMAIN df |-> MimicMergeIntimeRowsFor(df[i], icustays_df)])

\* pd.to_datetime(chunk_merged["charttime"]) raises on text that is no timestamp.
MimicToDatetimeRaises(df) == \E i \in DOMAIN df : df[i].charttime = BadText

\* event_time_from_admit = charttime - intime; charttime and intime deleted.
MimicEventTime(df) ==
    [i \in DOMAIN df |->
        [stay_id |-> df[i].stay_id, itemid |-> df[i].itemid, valuenum |-> df[i].valuenum,
         event_time_from_admit |-> df[i].charttime.n - df[i].intime]]

\* A variant of MimicBeforeCutoff that forgets the cutoff filter.
MimicBeforeCutoff_KeepAll(df, cutoff_h) == df

\* Filter out test after cutoff.
MimicBeforeCutoff(df, cutoff_h) ==
    SelectSeq(df, LAMBDA r : r.event_time_from_admit < Timedelta(cutoff_h))

\* DataFrame.drop_duplicates(): the first of equal rows is kept.
RECURSIVE DropDuplicates(_)
DropDuplicates(df) ==
    IF df = <<>> THEN <<>>
    ELSE LET init == SubSeq(df, 1, Len(df) - 1)
             last == df[Len(df)]
         IN IF \E i \in DOMAIN init : init[i] = last
            THEN DropDuplicates(init)
            ELSE Append(DropDuplicates(init), last)

\* The body of the loop of load_charts up to pd.to_datetime.
MimicChunkMerged(chnk, icustays_df, valid_items) ==
    MimicMergeIntime(MimicKeepItems(MimicDropNa(chnk), valid_items), icustays_df)

\* The rest of the body: what is appended to results.
MimicChunkFiltered(chunk_merged, cutoff_h) ==
    DropDuplicates(MimicDropNa(MimicBeforeCutoff(MimicEventTime(chunk_merged), cutoff_h)))

-----------------------------------------------------------------------------
(* eicu_pipeline/utils/charts.py: the four chunked loaders, one chunk *)

\* chunk[chunk["patientunitstayid"].isin(icustays_df["patientunitstayid"])]
EicuKeepCohort(chnk, icustays_df) ==
    SelectSeq(chnk, LAMBDA r :
        r.patientunitstayid \in Column(icustays_df, "patientunitstayid"))

\* Comparing an offset column that holds text with a number raises TypeError.
EicuCompareRaises(chnk, offset_col) ==
    \E i \in DOMAIN chnk : chnk[i][offset_col] = BadText

\* chunk[chunk[offset_col] <= cutoff_h * 60]; NaN compares false.
EicuBeforeCutoff(chnk, offset_col, cutoff_h) ==
    SelectSeq(chnk, LAMBDA r :
        r[offset_col].tag = "num" /\ r[offset_col].n <= cutoff_h * 60)

\* load_respiratory_charting
RespKeepCohort(chnk, icustays_df) == EicuKeepCohort(chnk, icustays_df)
RespBeforeCutoff(chnk, cutoff_h) == EicuBeforeCutoff(chnk, "respchartoffset", cutoff_h)

\* load_nurse_charting
NurseKeepCohort(chnk, icustays_df) == EicuKeepCohort(chnk, icustays_df)
NurseBeforeCutoff(chnk, cutoff_h) == EicuBeforeCutoff(chnk, "nursingchartoffset", cutoff_h)

\* A variant of PeriodicKeepCohort that forgets the cohort filter.
PeriodicKeepCohort_All(chnk, icustays_df) == chnk

\* load_vital_periodic
PeriodicKeepCohort(chnk, icustays_df) == EicuKeepCohort(chnk, icustays_df)
PeriodicBeforeCutoff(chnk, cutoff_h) == EicuBeforeCutoff(chnk, "observationoffset", cutoff_h)

\* chunk["temperature"] * 9 / 5 + 32 raises TypeError on text; NaN stays NaN.
PeriodicFahrenheitRaises(chnk) == \E i \in DOMAIN chnk : chnk[i].temperature = BadText

Fahrenheit(t) == IF t.tag = "num" THEN Num((t.n * 9) \div 5 + 32) ELSE NaN

PeriodicFahrenheit(chnk) ==
    [i \in DOMAIN chnk |->
        [patientunitstayid |-> chnk[i].patientunitstayid,
         observationoffset |-> chnk[i].observationoffset,
         temperature |-> chnk[i].temperature,
         temperature_fahrenheit |-> Fahrenheit(chnk[i].temperature)]]

\* load_vital_aperiodic
AperiodicKeepCohort(chnk, icustays_df) == EicuKeepCohort(chnk, icustays_df)
AperiodicBeforeCutoff(chnk, cutoff_h) == EicuBeforeCutoff(chnk, "observationoffset", cutoff_h)

-----------------------------------------------------------------------------
(* The loader inputs: the chunked source file, the cohort and the arguments *)

MaxRows == 2

\* Cells of a value column and of an offset column (minutes since admission).
ValueCells == {Num(5), NaN, BadText}
OffsetCells == {Num(170), Num(180), Num(190), BadText}

\* MIMIC: the one cohort stay was admitted at minute 600; charttime is absolute.
MimicIntime == 600
MimicStreamCohort == << [stay_id |-> 1, intime |-> MimicIntime] >>
ChartTimes ==
    {IF c.tag = "num" THEN Num(MimicIntime + c.n) ELSE c : c \in OffsetCells}

EicuStreamCohort == << [patientunitstayid |-> 1] >>

\* valid_items: None or a list of itemids.
ValidItems ==
    { [is_none |-> TRUE, items |-> {}],
      [is_none |-> FALSE, items |-> {220045}] }

Loaders ==
    {"load_charts", "load_respiratory_charting", "load_nurse_charting",
     "load_vital_periodic", "load_vital_aperiodic"}

\* The rows a source file may hold, by loader.
SourceRows(loader) ==
    CASE loader = "load_charts" ->
            [stay_id : {1, 2}, charttime : ChartTimes, itemid : {220045, 220050},
             valuenum : ValueCells]
      [] loader = "load_respiratory_charting" ->
            [patientunitstayid : {1, 2}, respchartoffset : OffsetCells,
             respchartvaluelabel : {"FiO2"}, respchartvalue : ValueCells]
      [] loader = "load_nurse_charting" ->
            [patientunitstayid : {1, 2}, nursingchartoffset : OffsetCells,
             nursingchartcelltypevallabel : {"Heart Rate"}, nursingchartvalue : ValueCells]
      [] loader = "load_vital_periodic" ->
            [patientunitstayid : {1, 2}, observationoffset : OffsetCells,
             temperature : ValueCells]
      [] loader = "load_vital_aperiodic" ->
            [patientunitstayid : {1, 2}, observationoffset : OffsetCells,
             noninvasivemean : ValueCells]

-----------------------------------------------------------------------------
(* The chunked loaders *)

StreamInit ==
    /\ PatOff /\ PipeOff
    /\ pcL = "idle" /\ load = [loader |-> "none"] /\ pos = 0 /\ chunk = <<>>
    /\ count = 0 /\ results = <<>> /\ ret = <<>>
    /\ pcD = "off" /\ diagIn = [adapter |-> "none"] /\ diagOut = <<>>
    /\ diagLocals = NoLocals
    /\ pcA = "off" /\ aggIn = <<>> /\ aggOut = <<>>
    /\ featIn = [adapter |-> "none"] /\ featOut = <<>>

\* A loader is called and pd.read_csv opens its source: any file of the loader's
\* rows, or a file that cannot be opened, which raises at once.
OpenSource ==
    /\ pcL = "idle"
    /\ \E loader \in Loaders, readable \in BOOLEAN, valid \in ValidItems :
       \E file \in SeqsUpTo(SourceRows(loader), MaxRows) :
          /\ loader # "load_charts" => valid.is_none
          /\ ~readable => file = <<>>
          /\ load' = [loader |-> loader, readable |-> readable, file |-> file,
                      icustays_df |-> IF loader = "load_charts" THEN MimicStreamCohort
                                      ELSE EicuStreamCohort,
                      valid_items |-> valid, cutoff_h |-> CutoffH]
          /\ pcL' = IF readable THEN "reading" ELSE "raised"
    /\ UNCHANGED <<pos, chunk, count, results, ret, diagVars, aggVars, patVars, pipeVars>>

\* The chunk iterator yields the next n rows; a file without rows yields one
\* empty chunk.
CanRead(n) ==
    \/ n \in 1..(Len(load.file) - pos)
    \/ n = 0 /\ Len(load.file) = 0 /\ results = <<>>

ReadChunk(n) == SubSeq(load.file, pos + 1, pos + n)

\* One pass of the loop of load_charts.
LoadChartsChunk ==
    /\ pcL = "reading" /\ load.loader = "load_charts"
    /\ \E n \in 0..Len(load.file) :
          /\ CanRead(n)
          /\ chunk' = ReadChunk(n)
          /\ pos' = pos + n
          /\ count' = count + 1
          /\ LET chunk_merged ==
                    MimicChunkMerged(ReadChunk(n), load.icustays_df, load.valid_items)
             IN IF MimicToDatetimeRaises(chunk_merged)
                THEN pcL' = "raised" /\ UNCHANGED results
                ELSE /\ pcL' = "reading"
                     /\ results' = Append(results,
                                          MimicChunkFiltered(chunk_merged, load.cutoff_h))
    /\ UNCHANGED <<load, ret, diagVars, aggVars, patVars, pipeVars>>

\* One pass of the loop of load_respiratory_charting.
LoadRespiratoryChunk ==
    /\ pcL = "reading" /\ load.loader = "load_respiratory_charting"
    /\ \E n \in 0..Len(load.file) :
          /\ CanRead(n)
          /\ chunk' = ReadChunk(n)
          /\ pos' = pos + n
          /\ LET in_cohort == RespKeepCohort(ReadChunk(n), load.icustays_df)
             IN IF EicuCompareRaises(in_cohort, "respchartoffset")
                THEN pcL' = "raised" /\ UNCHANGED results
                ELSE /\ pcL' = "reading"
                     /\ results' = Append(results,
                                          RespBeforeCutoff(in_cohort, load.cutoff_h))
    /\ UNCHANGED <<load, count, ret, diagVars, aggVars, patVars, pipeVars>>

\* One pass of the loop of load_nurse_charting.
LoadNurseChunk ==
    /\ pcL = "reading" /\ load.loader = "load_nurse_charting"
    /\ \E n \in 0..Len(load.file) :
          /\ CanRead(n)
          /\ chunk' = ReadChunk(n)
          /\ pos' = pos + n
          /\ LET in_cohort == NurseKeepCohort(ReadChunk(n), load.icustays_df)
             IN IF EicuCompareRaises(in_cohort, "nursingchartoffset")
                THEN pcL' = "raised" /\ UNCHANGED results
                ELSE /\ pcL' = "reading"
                     /\ results' = Append(results,
                                          NurseBeforeCutoff(in_cohort, load.cutoff_h))
    /\ UNCHANGED <<load, count, ret, diagVars, aggVars, patVars, pipeVars>>

\* One pass of the loop of load_vital_periodic.
LoadVitalPeriodicChunk ==
    /\ pcL = "reading" /\ load.loader = "load_vital_periodic"
    /\ \E n \in 0..Len(load.file) :
          /\ CanRead(n)
          /\ chunk' = ReadChunk(n)
          /\ pos' = pos + n
          /\ LET in_cohort == PeriodicKeepCohort(ReadChunk(n), load.icustays_df)
                 before == PeriodicBeforeCutoff(in_cohort, load.cutoff_h)
             IN IF \/ EicuCompareRaises(in_cohort, "observationoffset")
                   \/ PeriodicFahrenheitRaises(before)
                THEN pcL' = "raised" /\ UNCHANGED results
                ELSE /\ pcL' = "reading"
                     /\ results' = Append(results, PeriodicFahrenheit(before))
    /\ UNCHANGED <<load, count, ret, diagVars, aggVars, patVars, pipeVars>>

\* One pass of the loop of load_vital_aperiodic.
LoadVitalAperiodicChunk ==
    /\ pcL = "reading" /\ load.loader = "load_vital_aperiodic"
    /\ \E n \in 0..Len(load.file) :
          /\ CanRead(n)
          /\ chunk' = ReadChunk(n)
          /\ pos' = pos + n
          /\ LET in_cohort == AperiodicKeepCohort(ReadChunk(n), load.icustays_df)
             IN IF EicuCompareRaises(in_cohort, "observationoffset")
                THEN pcL' = "raised" /\ UNCHANGED results
                ELSE /\ pcL' = "reading"
                     /\ results' = Append(results,
                                          AperiodicBeforeCutoff(in_cohort, load.cutoff_h))
    /\ UNCHANGED <<load, count, ret, diagVars, aggVars, patVars, pipeVars>>

\* The source is exhausted: pd.concat(results, ignore_index=True) is returned.
LoaderReturn ==
    /\ pcL = "reading"
    /\ pos = Len(load.file)
    /\ results # <<>>
    /\ ret' = Concat(results)
    /\ pcL' = "done"
    /\ UNCHANGED <<load, pos, chunk, count, results, diagVars, aggVars, patVars, pipeVars>>

StreamNext ==
    \/ OpenSource
    \/ LoadChartsChunk
    \/ LoadRespiratoryChunk
    \/ LoadNurseChunk
    \/ LoadVitalPeriodicChunk
    \/ LoadVitalAperiodicChunk
    \/ LoaderReturn

SpecStream == StreamInit /\ [][StreamNext]_vars

-----------------------------------------------------------------------------
(* Claims about the chunked loaders *)

IsMimic == load.loader = "load_charts"

\* The entity key, the value cell and the offset column of a loader's rows.
KeyOf(row) == IF IsMimic THEN row.stay_id ELSE row.patientunitstayid

CohortKeys == {KeyOf(load.icustays_df[i]) : i \in DOMAIN load.icustays_df}

ValueOf(row) ==
    CASE load.loader = "load_charts" -> row.valuenum
      [] load.loader = "load_respiratory_charting" -> row.respchartvalue
      [] load.loader = "load_nurse_charting" -> row.nursingchartvalue
      [] load.loader = "load_vital_periodic" -> row.temperature
      [] load.loader = "load_vital_aperiodic" -> row.noninvasivemean

OffsetCol ==
    CASE load.loader = "load_respiratory_charting" -> "respchartoffset"
      [] load.loader = "load_nurse_charting" -> "nursingchartoffset"
      [] OTHER -> "observationoffset"

\* The admission time of a cohort stay (MIMIC).
IntimeOf(stay) ==
    LET i == CHOOSE k \in DOMAIN load.icustays_df : load.icustays_df[k].stay_id = stay
    IN load.icustays_df[i].intime

\* The time cell of a source row, and its minutes since admission when it parses.
TimeCell(row) == IF IsMimic THEN row.charttime ELSE row[OffsetCol]

TimeFromAdmit(row) ==
    IF IsMimic THEN row.charttime.n - IntimeOf(row.stay_id) ELSE row[OffsetCol].n

\* The output row a kept source row becomes.
ImageOf(row) ==
    CASE load.loader = "load_charts" ->
            [stay_id |-> row.stay_id, itemid |-> row.itemid, valuenum |-> row.valuenum,
             event_time_from_admit |-> TimeFromAdmit(row)]
      [] load.loader = "load_vital_periodic" ->
            [patientunitstayid |-> row.patientunitstayid,
             observationoffset |-> row.observationoffset,
             temperature |-> row.temperature,
             temperature_fahrenheit |-> Fahrenheit(row.temperature)]
      [] OTHER -> row

\* The table a loader returns when its whole source comes as one chunk.
OneChunkResult ==
    CASE load.loader = "load_charts" ->
            MimicChunkFiltered(
                MimicChunkMerged(load.file, load.icustays_df, load.valid_items),
                load.cutoff_h)
      [] load.loader = "load_respiratory_charting" ->
            RespBeforeCutoff(RespKeepCohort(load.file, load.icustays_df), load.cutoff_h)
      [] load.loader = "load_nurse_charting" ->
            NurseBeforeCutoff(NurseKeepCohort(load.file, load.icustays_df), load.cutoff_h)
      [] load.loader = "load_vital_periodic" ->
            PeriodicFahrenheit(PeriodicBeforeCutoff(
                PeriodicKeepCohort(load.file, load.icustays_df), load.cutoff_h))
      [] load.loader = "load_vital_aperiodic" ->
            AperiodicBeforeCutoff(AperiodicKeepCohort(load.file, load.icustays_df),
                                  load.cutoff_h)

\* A table as a bag of rows: order dropped, multiplicity kept.
BagOfRows(tbl) ==
    [r \in {tbl[i] : i \in DOMAIN tbl} |-> Cardinality({i \in DOMAIN tbl : tbl[i] = r})]

\* C4: however the source is cut into consecutive chunks, a loader returns the
\* same rows, each the same number of times, as when the source is one chunk.
C4_SameRowsForEveryCut ==
    pcL = "done" => BagOfRows(ret) = BagOfRows(OneChunkResult)

\* A source row passes the predicates other than the cutoff.
PassesOther(row) ==
    /\ KeyOf(row) \in CohortKeys
    /\ IsMimic => /\ row.valuenum # NaN
                  /\ load.valid_items.is_none \/ row.itemid \in load.valid_items.items

IsKept(row) == \E j \in DOMAIN ret : ret[j] = ImageOf(row)

\* C5: a source row that passes the other predicates is kept if and only if its
\* time from admission is at most cutoff_h hours; a row exactly at the cutoff
\* is kept.
C5_KeptIffWithinCutoff ==
    pcL = "done" => \A i \in DOMAIN load.file :
        (PassesOther(load.file[i]) /\ TimeCell(load.file[i]).tag = "num")
            => (IsKept(load.file[i])
                    <=> TimeFromAdmit(load.file[i]) <= load.cutoff_h * 60)

\* C6: no row a loader outputs has an entity key missing from the cohort table.
C6_OutputKeysInCohort ==
    pcL = "done" => \A j \in DOMAIN ret : KeyOf(ret[j]) \in CohortKeys

\* C6 witness: a source of two chunks with a row of a stay outside the cohort,
\* and a loader that returned rows.
C6_Witness ==
    /\ pcL = "done" /\ Len(results) = 2 /\ ret # <<>>
    /\ \E i \in DOMAIN load.file : KeyOf(load.file[i]) \notin CohortKeys

\* C7: every row a loader outputs has a non-null numeric value.
C7_OutputValuesNumeric ==
    pcL = "done" => \A j \in DOMAIN ret : ValueOf(ret[j]).tag = "num"

\* C8: a loader ends in an error only when its source cannot be opened or read;
\* a row with an unparseable timestamp or value never makes it raise.
C8_RaisesOnlyWhenUnreadable ==
    pcL = "raised" => ~load.readable

\* A held output row passes every filter predicate of its loader.
PassesFilters(out) ==
    /\ KeyOf(out) \in CohortKeys
    /\ IF IsMimic
       THEN /\ out.valuenum # NaN
            /\ load.valid_items.is_none \/ out.itemid \in load.valid_items.items
            /\ out.event_time_from_admit < Timedelta(load.cutoff_h)
       ELSE /\ out[OffsetCol].tag = "num"
            /\ out[OffsetCol].n <= load.cutoff_h * 60

\* C9: between chunks only filtered rows are carried: every row held in results
\* passed the filter predicates, and the unfiltered rows held are those of the
\* chunk read last.
C9_OnlyFilteredRowsCarried ==
    pcL \in {"reading", "done"} =>
        /\ \A k \in DOMAIN results : \A j \in DOMAIN results[k] :
              PassesFilters(results[k][j])
        /\ chunk = SubSeq(load.file, pos - Len(chunk) + 1, pos)

\* C9 witness: two chunks were processed, one of them lost a row to a filter
\* and the other one kept its row.
C9_Witness ==
    /\ pcL = "reading" /\ Len(results) = 2
    /\ results[1] # <<>> /\ results[2] = <<>> /\ Len(load.file) = 2

-----------------------------------------------------------------------------
(* extra/charts.py: create_chart_features *)

\* The five statistics, in the order the wide table selects them.
Metrics == <<"last", "max", "min", "mean", "median">>

RECURSIVE Gcd(_, _)
Gcd(a, b) == IF b = 0 THEN a ELSE Gcd(b, a % b)

\* A cell of the wide table: the number n/d in lowest terms (a float64 the
\* statistics of small integers represent exactly), or a missing value.
Frac(n, d) == LET g == Gcd(n, d) IN [tag |-> "num", n |-> n \div g, d |-> d \div g]
Missing_Zero == [tag |-> "num", n |-> 0, d |-> 1]
Missing == [tag |-> "nan", n |-> 0, d |-> 1]

\* The rows of one group of groupby([stay_col, variable_col]), in row order.
GroupRows(df, stay_col, variable_col, s, v) ==
    SelectSeq(df, LAMBDA r : r[stay_col] = s /\ r[variable_col] = v)

\* The values of a group a GroupBy reduction sees: it skips NaN.
SkipNa_Zero(rows, value_col) == [i \in DOMAIN rows |-> rows[i][value_col].n]
SkipNa(rows, value_col) ==
    LET kept == SelectSeq(rows, LAMBDA r : r[value_col].tag = "num")
    IN [i \in DOMAIN kept |-> kept[i][value_col].n]

RECURSIVE Sum(_)
Sum(x) == IF x = <<>> THEN 0 ELSE Head(x) + Sum(Tail(x))

\* The value column is float64: a sum and a quotient are rounded to the nearest
\* number with a mantissa of Prec bits, ties to the even mantissa.  The model
\* keeps the rounding and narrows the mantissa (53 bits in float64); the values
\* are not negative and the exponent is not bounded.
Prec == 3

RECURSIVE Pow2(_)
Pow2(k) == IF k = 0 THEN 1 ELSE 2 * Pow2(k - 1)

\* n/d rounded to an integer, ties to even.
RoundHalfEven(n, d) ==
    LET q == n \div d
        r == n % d
    IN IF 2 * r < d THEN q
       ELSE IF 2 * r > d THEN q + 1
       ELSE IF q % 2 = 0 THEN q ELSE q + 1

\* n/d rounded to a float.
RECURSIVE FlRound(_, _)
FlRound(n, d) ==
    IF n = 0 THEN Frac(0, 1)
    ELSE IF n >= d * Pow2(Prec) THEN LET f == FlRound(n, 2 * d) IN Frac(2 * f.n, f.d)
    ELSE IF n < d * Pow2(Prec - 1) THEN LET f == FlRound(2 * n, d) IN Frac(f.n, 2 * f.d)
    ELSE Frac(RoundHalfEven(n, d), 1)

\* The float sum of the values x added to acc one after the other.
RECURSIVE FlSum(_, _)
FlSum(acc, x) ==
    IF x = <<>> THEN acc
    ELSE FlSum(FlRound(acc.n + Head(x) * acc.d, acc.d), Tail(x))

\* The values in ascending order, repetitions kept.
RECURSIVE SortAsc(_)
SortAsc(x) ==
    IF x = <<>> THEN <<>>
    ELSE LET i == CHOOSE i \in DOMAIN x : \A j \in DOMAIN x : x[i] <= x[j]
         IN <<x[i]>> \o SortAsc(SubSeq(x, 1, i - 1) \o SubSeq(x, i + 1, Len(x)))

\* GroupBy "last", "max", "min", "mean", "median" of the non-null values x of a
\* group; each is NaN for a group without a non-null value.
last(x) == IF x = <<>> THEN Missing ELSE Frac(x[Len(x)], 1)
max(x) ==
    IF x = <<>> THEN Missing
    ELSE Frac(CHOOSE m \in {x[i] : i \in DOMAIN x} : \A i \in DOMAIN x : x[i] <= m, 1)
min(x) ==
    IF x = <<>> THEN Missing
    ELSE Frac(CHOOSE m \in {x[i] : i \in DOMAIN x} : \A i \in DOMAIN x : m <= x[i], 1)
mean_NoDivide(x) == IF x = <<>> THEN Missing ELSE FlSum(Frac(0, 1), x)
mean(x) ==
    IF x = <<>> THEN Missing
    ELSE LET s == FlSum(Frac(0, 1), x) IN FlRound(s.n, s.d * Len(x))
median(x) ==
    LET sorted == SortAsc(x)
        n == Len(x)
    IN IF n = 0 THEN Missing
       ELSE IF n % 2 = 1 THEN Frac(sorted[(n + 1) \div 2], 1)
       ELSE LET s == FlRound(sorted[n \div 2] + sorted[n \div 2 + 1], 1)
            IN FlRound(s.n, s.d * 2)

\* .agg(last="last", max="max", min="min", mean="mean", median="median")
\* of the values x: the statistic named metric.
Agg(metric, x) ==
    CASE metric = "last" -> last(x)
      [] metric = "max" -> max(x)
      [] metric = "min" -> min(x)
      [] metric = "mean" -> mean(x)
      [] metric = "median" -> median(x)

\* f"{metric}_{var}"
ColumnName(metric, var) == metric \o "_" \o var

\* A table without a row has no group: stats is empty, the pivot has no column
\* and wide_df[["last", "max", "min", "mean", "median"]] raises KeyError.
CreateChartFeaturesRaises(charts_df) == charts_df = <<>>

\* A row of the wide table: the cells acc extended by the given (column name,
\* value) cells.
RECURSIVE WideCells(_, _)
WideCells(cells, acc) ==
    IF cells = {} THEN acc
    ELSE LET c == CHOOSE c \in cells : TRUE
         IN WideCells(cells \ {c}, acc @@ (c[1] :> c[2]))

\* create_chart_features: one row per stay that has a group, in ascending stay
\* order, with the stay column and one column per statistic and variable of the
\* whole table; a stay without a group for a variable gets NaN from the pivot.
\* The order of the columns is not modelled.
create_chart_features(charts_df, stay_col, variable_col, value_col) ==
    LET keys == {<<charts_df[i][stay_col], charts_df[i][variable_col]>> :
                    i \in DOMAIN charts_df}
        stays == SortedSeq({k[1] : k \in keys})
        pairs == {<<Metrics[m], k[2]>> : m \in DOMAIN Metrics, k \in keys}
        stats(metric, s, v) ==
            Agg(metric, SkipNa(GroupRows(charts_df, stay_col, variable_col, s, v),
                               value_col))
    IN [i \in DOMAIN stays |->
          LET cell(metric, v) ==
                  IF <<stays[i], v>> \in keys THEN stats(metric, stays[i], v)
                  ELSE Missing
          IN WideCells({<<ColumnName(mv[1], mv[2]), cell(mv[1], mv[2])>> : mv \in pairs},
                       stay_col :> stays[i])]

-----------------------------------------------------------------------------
(* Inputs of the aggregation *)

MaxAggRows == 3

AggStays == {1, 2}
AggVariables == {"hr", "rr"}
AggValues == {Num(1), Num(2), Num(6), NaN}
AggOffsets == {5, 60}

\* A row of the long-format table: the value column is numeric (float64), as
\* read by load_charts or as left by pd.to_numeric(errors="coerce").  The rows
\* of "hr" take every value and offset, the rows of "rr" one of each.
AggRows ==
    [stay_id : AggStays, itemid : {"hr"}, valuenum : AggValues,
     event_time_from_admit : AggOffsets]
    \cup [stay_id : AggStays, itemid : AggVariables \ {"hr"}, valuenum : {Num(2)},
          event_time_from_admit : {5}]

-----------------------------------------------------------------------------
(* The aggregation call *)

\* Before the call: any table, in any row order.
AggInit ==
    /\ PatOff /\ PipeOff
    /\ pcA = "idle"
    /\ aggIn \in SeqsUpTo(AggRows, MaxAggRows)
    /\ aggOut = <<>>
    /\ featIn = [adapter |-> "none"] /\ featOut = <<>>
    /\ pcD = "off" /\ diagIn = [adapter |-> "none"] /\ diagOut = <<>>
    /\ diagLocals = NoLocals
    /\ pcL = "off" /\ load = [loader |-> "none"] /\ pos = 0 /\ chunk = <<>>
    /\ count = 0 /\ results = <<>> /\ ret = <<>>

\* One call of create_chart_features.
CallCreateChartFeatures ==
    /\ pcA = "idle"
    /\ IF CreateChartFeaturesRaises(aggIn)
       THEN pcA' = "raised" /\ UNCHANGED aggOut
       ELSE /\ aggOut' = create_chart_features(aggIn, "stay_id", "itemid", "valuenum")
            /\ pcA' = "done"
    /\ UNCHANGED <<aggIn, featIn, featOut, diagVars, loadVars, patVars, pipeVars>>

AggNext == CallCreateChartFeatures

SpecAgg == AggInit /\ [][AggNext]_vars

-----------------------------------------------------------------------------
(* Claims about create_chart_features *)

\* The rows of a table are in ascending time order within each group.
SortedWithinGroups(df) ==
    \A i, j \in DOMAIN df :
        (/\ i < j
         /\ df[i].stay_id = df[j].stay_id
         /\ df[i].itemid = df[j].itemid)
        => df[i].event_time_from_admit <= df[j].event_time_from_admit

\* The row of a stay in the wide table.
WideRow(s) == aggOut[CHOOSE i \in DOMAIN aggOut : aggOut[i].stay_id = s]

\* A value of the long table as a cell of the wide table.
CellOf(value) == IF value.tag = "num" THEN Frac(value.n, 1) ELSE Missing

Abs(i) == IF i < 0 THEN -i ELSE i

\* The largest of the values x.
Largest(x) == CHOOSE m \in {x[i] : i \in DOMAIN x} : \A i \in DOMAIN x : x[i] <= m
Smallest(x) == CHOOSE m \in {x[i] : i \in DOMAIN x} : \A i \in DOMAIN x : m <= x[i]

\* The cell m is the sum of the k values x divided by k, up to the rounding
\* error of k float operations on values up to Largest(x):
\*   |m - Sum(x)/k| <= k*u / (1 - k*u) * Largest(x),  with u = 2^(-Prec).
MeanWithinRounding(m, x) ==
    LET k == Len(x)
    IN /\ m.tag = "num"
       /\ Abs(m.n * k - Sum(x) * m.d) * (Pow2(Prec) - k) <= k * k * Largest(x) * m.d

\* What the statement says of one group with rows g (in row order) whose
\* numeric values are x, for the row w of the group's stay and the variable v.
StatedOfGroup(g, x, w, v) ==
    /\ {ColumnName(Metrics[m], v) : m \in DOMAIN Metrics} \subseteq DOMAIN w
    /\ w[ColumnName("last", v)] = CellOf(g[Len(g)].valuenum)
    /\ x # <<>> =>
          /\ \E i \in DOMAIN x : /\ w[ColumnName("max", v)] = Frac(x[i], 1)
                                 /\ \A j \in DOMAIN x : x[j] <= x[i]
          /\ \E i \in DOMAIN x : /\ w[ColumnName("min", v)] = Frac(x[i], 1)
                                 /\ \A j \in DOMAIN x : x[i] <= x[j]
          /\ MeanWithinRounding(w[ColumnName("mean", v)], x)
          /\ LET sorted == SortAsc(x)
                 n == Len(x)
                 med == w[ColumnName("median", v)]
             IN IF n % 2 = 1
                THEN med = Frac(sorted[(n + 1) \div 2], 1)
                ELSE med.n * 2 = (sorted[n \div 2] + sorted[n \div 2 + 1]) * med.d

\* C10: for input rows sorted ascending by time offset within each (entity,
\* variable) group, create_chart_features returns for every group last = the
\* value of the group's final row, max = the largest value, min = the smallest
\* value, mean = the sum of the values divided by their count, median = the
\* middle value (odd count) or the average of the two middle values (even
\* count), in columns named '{statistic}_{variable}'.
C10_StatisticsOfSortedGroups ==
    (pcA = "done" /\ SortedWithinGroups(aggIn)) =>
        \A i \in DOMAIN aggIn :
            LET s == aggIn[i].stay_id
                v == aggIn[i].itemid
                g == GroupRows(aggIn, "stay_id", "itemid", s, v)
            IN /\ \E k \in DOMAIN aggOut : aggOut[k].stay_id = s
               /\ StatedOfGroup(g, SkipNa(g, "valuenum"), WideRow(s), v)

\* a <= b for two numeric cells of the wide table.
Leq(a, b) == a.tag = "num" /\ b.tag = "num" /\ a.n * b.d <= b.n * a.d

\* The (stay, variable) groups of the table passed to create_chart_features.
AggGroups == {<<aggIn[i].stay_id, aggIn[i].itemid>> : i \in DOMAIN aggIn}

\* The values of a group that are not missing, in row order.
ValuesOf(k) ==
    LET g == SelectSeq(aggIn, LAMBDA r : /\ r.stay_id = k[1] /\ r.itemid = k[2]
                                         /\ r.valuenum.tag = "num")
    IN [i \in DOMAIN g |-> g[i].valuenum.n]

\* The cell of a statistic of a group in the wide table.
Stat(metric, k) == WideRow(k[1])[ColumnName(metric, k[2])]

C12_SingleEventStatistics ==
    pcA = "done" =>
        \A k \in AggGroups :
            Len(ValuesOf(k)) = 1 =>
                \A m \in DOMAIN Metrics :
                    Stat(Metrics[m], k) = Frac(ValuesOf(k)[1], 1)

\* A group with one value and a second row whose value is missing.
C12_Witness ==
    /\ pcA = "done"
    /\ \E k \in AggGroups :
          /\ Len(ValuesOf(k)) = 1
          /\ Len(GroupRows(aggIn, "stay_id", "itemid", k[1], k[2])) = 2

-----------------------------------------------------------------------------
(* add_charts_features of both adapters *)

\* The loaders on a source file that fits in one chunk.
LoadChartsRaises(file, icustays_df, valid_items) ==
    MimicToDatetimeRaises(MimicChunkMerged(file, icustays_df, valid_items))
load_charts(file, icustays_df, valid_items, cutoff_h) ==
    MimicChunkFiltered(MimicChunkMerged(file, icustays_df, valid_items), cutoff_h)
load_respiratory_charting(file, icustays_df, cutoff_h) ==
    RespBeforeCutoff(RespKeepCohort(file, icustays_df), cutoff_h)
load_nurse_charting(file, icustays_df, cutoff_h) ==
    NurseBeforeCutoff(NurseKeepCohort(file, icustays_df), cutoff_h)
load_vital_periodic(file, icustays_df, cutoff_h) ==
    PeriodicFahrenheit(PeriodicBeforeCutoff(PeriodicKeepCohort(file, icustays_df), cutoff_h))
load_vital_aperiodic(file, icustays_df, cutoff_h) ==
    AperiodicBeforeCutoff(AperiodicKeepCohort(file, icustays_df), cutoff_h)

\* pd.to_numeric(df[col], errors="coerce"): text that is no number becomes NaN.
ToNumeric(df, col) ==
    [i \in DOMAIN df |-> [df[i] EXCEPT ![col] = IF @ = BadText THEN NaN ELSE @]]

\* The variable labels of the model in ascending (string) order.
VariableOrder ==
    <<"220045", "220050", "FiO2", "Heart Rate", "noninvasivemean", "temperature">>
LabelRank(label) == CHOOSE i \in DOMAIN VariableOrder : VariableOrder[i] = label

\* The number in a cell of a time column: load_charts leaves a number of
\* minutes (unit "timedelta"), an eICU loader a numeric cell (unit "offset").
Minutes(unit, cell) == IF unit = "timedelta" THEN cell ELSE cell.n

\* The row a comes before the row b in the order of sort_values(by), for
\* by = [stay, variable, time].
RowBefore(a, b, by, unit) ==
    \/ a[by[1]] < b[by[1]]
    \/ /\ a[by[1]] = b[by[1]]
       /\ \/ LabelRank(a[by[2]]) < LabelRank(b[by[2]])
          \/ /\ a[by[2]] = b[by[2]]
             /\ Minutes(unit, a[by[3]]) < Minutes(unit, b[by[3]])

\* A variant of sort_values that leaves the rows as they are.
sort_values_Unsorted(df, by, unit) == df

\* df.sort_values(by): rows that are equal on the three columns keep their order.
RECURSIVE sort_values(_, _, _)
sort_values(df, by, unit) ==
    IF df = <<>> THEN <<>>
    ELSE LET i == CHOOSE i \in DOMAIN df :
                      /\ \A j \in DOMAIN df : ~RowBefore(df[j], df[i], by, unit)
                      /\ \A j \in 1..(i - 1) : RowBefore(df[i], df[j], by, unit)
         IN <<df[i]>>
            \o sort_values(SubSeq(df, 1, i - 1) \o SubSeq(df, i + 1, Len(df)), by, unit)

\* df.dropna(subset=value_vars, how="all").melt(id_vars, value_vars, "vital",
\* "value").dropna(subset=["value"])
RECURSIVE Melt(_, _)
Melt(df, value_vars) ==
    IF value_vars = <<>> THEN <<>>
    ELSE LET kept == SelectSeq(df, LAMBDA r : r[Head(value_vars)] # NaN)
         IN [i \in DOMAIN kept |->
                [patientunitstayid |-> kept[i].patientunitstayid,
                 observationoffset |-> kept[i].observationoffset,
                 vital |-> Head(value_vars), value |-> kept[i][Head(value_vars)]]]
            \o Melt(df, Tail(value_vars))

\* A variant of LeftMerge that keeps only the left rows with a match.
LeftMerge_Inner(left, right, key) ==
    LET hit == SelectSeq(left, LAMBDA l : \E j \in DOMAIN right : right[j][key] = l[key])
    IN [i \in DOMAIN hit |->
          hit[i] @@ right[CHOOSE j \in DOMAIN right : right[j][key] = hit[i][key]]]

\* left.merge(right, on=key, how="left") for a right table with one row per key:
\* a left row without a match gets NaN in the columns of the right table.
LeftMerge(left, right, key) ==
    [i \in DOMAIN left |->
        IF \E j \in DOMAIN right : right[j][key] = left[i][key]
        THEN left[i] @@ right[CHOOSE j \in DOMAIN right : right[j][key] = left[i][key]]
        ELSE left[i] @@ [c \in DOMAIN right[1] |-> Missing]]

-----------------------------------------------------------------------------
(* Inputs of add_charts_features *)

MaxFeatRows == 2

FeatStays == {1, 2}
FeatOffsets == {Num(5), Num(60), Num(190)}
FeatValues == {Num(1), Num(6), NaN}
FeatTexts == {Num(1), Num(6), BadText}

\* The cohort tables: three stays, in either row order, with one more column;
\* no source file has a row of stay 3.
MimicFeatCohorts ==
    { << [stay_id |-> 1, intime |-> MimicIntime], [stay_id |-> 2, intime |-> MimicIntime],
         [stay_id |-> 3, intime |-> MimicIntime] >>,
      << [stay_id |-> 3, intime |-> MimicIntime], [stay_id |-> 2, intime |-> MimicIntime],
         [stay_id |-> 1, intime |-> MimicIntime] >> }
EicuFeatCohort ==
    << [patientunitstayid |-> 1, age |-> 70], [patientunitstayid |-> 2, age |-> 80],
       [patientunitstayid |-> 3, age |-> 60] >>

FeatValidItems ==
    { [is_none |-> TRUE, items |-> {}], [is_none |-> FALSE, items |-> {"220045"}] }

\* The rows of a source file, by loader; itemid is kept as its text.  One row
\* of every file has a time that is no timestamp (no number).
FeatRows(loader) ==
    CASE loader = "load_charts" ->
            [stay_id : FeatStays, charttime : {Num(MimicIntime + o.n) : o \in FeatOffsets},
             itemid : {"220045"}, valuenum : FeatValues]
            \cup [stay_id : FeatStays, charttime : {Num(MimicIntime + 5)},
                  itemid : {"220050"}, valuenum : {Num(2)}]
            \cup [stay_id : {1}, charttime : {BadText}, itemid : {"220045"},
                  valuenum : {Num(1)}]
      [] loader = "load_respiratory_charting" ->
            [patientunitstayid : FeatStays, respchartoffset : FeatOffsets,
             respchartvaluelabel : {"FiO2"}, respchartvalue : FeatTexts]
            \cup [patientunitstayid : {1}, respchartoffset : {BadText},
                  respchartvaluelabel : {"FiO2"}, respchartvalue : {Num(1)}]
      [] loader = "load_nurse_charting" ->
            [patientunitstayid : FeatStays, nursingchartoffset : FeatOffsets,
             nursingchartcelltypevallabel : {"Heart Rate"}, nursingchartvalue : FeatTexts]
            \cup [patientunitstayid : {1}, nursingchartoffset : {BadText},
                  nursingchartcelltypevallabel : {"Heart Rate"},
                  nursingchartvalue : {Num(1)}]
      [] loader = "load_vital_periodic" ->
            [patientunitstayid : FeatStays, observationoffset : FeatOffsets,
             temperature : FeatValues]
            \cup [patientunitstayid : {1}, observationoffset : {BadText},
                  temperature : {Num(1)}]
      [] loader = "load_vital_aperiodic" ->
            [patientunitstayid : FeatStays, observationoffset : FeatOffsets,
             noninvasivemean : FeatValues]
            \cup [patientunitstayid : {1}, observationoffset : {BadText},
                  noninvasivemean : {Num(1)}]

EicuLoaders == Loaders \ {"load_charts"}

\* A source file with one row of stay 1 that every filter keeps.
OneRowFile(loader) ==
    CASE loader = "load_respiratory_charting" ->
            << [patientunitstayid |-> 1, respchartoffset |-> Num(5),
                respchartvaluelabel |-> "FiO2", respchartvalue |-> Num(1)] >>
      [] loader = "load_nurse_charting" ->
            << [patientunitstayid |-> 1, nursingchartoffset |-> Num(5),
                nursingchartcelltypevallabel |-> "Heart Rate", nursingchartvalue |-> Num(1)] >>
      [] loader = "load_vital_periodic" ->
            << [patientunitstayid |-> 1, observationoffset |-> Num(5),
                temperature |-> Num(1)] >>
      [] loader = "load_vital_aperiodic" ->
            << [patientunitstayid |-> 1, observationoffset |-> Num(5),
                noninvasivemean |-> Num(1)] >>

-----------------------------------------------------------------------------
(* The add_charts_features calls *)

\* Before the call: the adapter, its cohort table and its source files.  In
\* eICU one of the four files is any file, the other three have one row.
FeatInit ==
    /\ PatOff /\ PipeOff
    /\ pcA = "idle"
    /\ \/ \E cohort \in MimicFeatCohorts, valid \in FeatValidItems :
          \E file \in SeqsUpTo(FeatRows("load_charts"), MaxFeatRows) :
             featIn = [adapter |-> "mimic", icustays_df |-> cohort, file |-> file,
                       valid_items |-> valid, cutoff_h |-> CutoffH]
       \/ \E any \in EicuLoaders :
          \E file \in SeqsUpTo(FeatRows(any), MaxFeatRows) :
             featIn = [adapter |-> "eicu", icustays_df |-> EicuFeatCohort,
                       files |-> [l \in EicuLoaders |->
                                     IF l = any THEN file ELSE OneRowFile(l)],
                       cutoff_h |-> CutoffH]
    /\ aggIn = <<>> /\ aggOut = <<>> /\ featOut = <<>>
    /\ pcD = "off" /\ diagIn = [adapter |-> "none"] /\ diagOut = <<>>
    /\ diagLocals = NoLocals
    /\ pcL = "off" /\ load = [loader |-> "none"] /\ pos = 0 /\ chunk = <<>>
    /\ count = 0 /\ results = <<>> /\ ret = <<>>

\* The end of every stage: create_chart_features on the sorted table and the
\* left merge of the wide table onto the cohort table.
CreateAndMerge(charts_df, icustays_df, stay_col, variable_col, value_col, next) ==
    /\ aggIn' = charts_df
    /\ IF CreateChartFeaturesRaises(charts_df)
       THEN pcA' = "raised" /\ UNCHANGED <<aggOut, featOut>>
       ELSE LET wide_df == create_chart_features(charts_df, stay_col, variable_col,
                                                 value_col)
            IN /\ aggOut' = wide_df
               /\ featOut' = LeftMerge(icustays_df, wide_df, stay_col)
               /\ pcA' = next
    /\ UNCHANGED <<featIn, diagVars, loadVars, patVars, pipeVars>>

\* A loader of the call raised.
LoaderRaised ==
    /\ pcA' = "raised"
    /\ UNCHANGED <<aggIn, aggOut, featIn, featOut, diagVars, loadVars, patVars, pipeVars>>

\* MIMIC add_charts_features.
MimicAddChartsFeatures ==
    /\ pcA = "idle" /\ featIn.adapter = "mimic"
    /\ IF LoadChartsRaises(featIn.file, featIn.icustays_df, featIn.valid_items)
       THEN LoaderRaised
       ELSE CreateAndMerge(
                sort_values(load_charts(featIn.file, featIn.icustays_df,
                                        featIn.valid_items, featIn.cutoff_h),
                            <<"stay_id", "itemid", "event_time_from_admit">>, "timedelta"),
                featIn.icustays_df, "stay_id", "itemid", "valuenum", "done")

\* eICU add_charts_features, respiratory charting.
EicuRespiratoryFeatures ==
    /\ pcA = "idle" /\ featIn.adapter = "eicu"
    /\ LET file == featIn.files["load_respiratory_charting"]
       IN IF EicuCompareRaises(RespKeepCohort(file, featIn.icustays_df), "respchartoffset")
          THEN LoaderRaised
          ELSE CreateAndMerge(
                   sort_values(
                       ToNumeric(load_respiratory_charting(file, featIn.icustays_df,
                                                           featIn.cutoff_h),
                                 "respchartvalue"),
                       <<"patientunitstayid", "respchartvaluelabel", "respchartoffset">>,
                       "offset"),
                   featIn.icustays_df, "patientunitstayid", "respchartvaluelabel",
                   "respchartvalue", "respiratory")

\* eICU add_charts_features, nurse charting.
EicuNurseFeatures ==
    /\ pcA = "respiratory"
    /\ LET file == featIn.files["load_nurse_charting"]
       IN IF EicuCompareRaises(NurseKeepCohort(file, featOut), "nursingchartoffset")
          THEN LoaderRaised
          ELSE CreateAndMerge(
                   sort_values(
                       ToNumeric(load_nurse_charting(file, featOut, featIn.cutoff_h),
                                 "nursingchartvalue"),
                       <<"patientunitstayid", "nursingchartcelltypevallabel",
                         "nursingchartoffset">>,
                       "offset"),
                   featOut, "patientunitstayid", "nursingchartcelltypevallabel",
                   "nursingchartvalue", "nurse")

\* eICU add_charts_features, periodic vitals.
EicuVitalPeriodicFeatures ==
    /\ pcA = "nurse"
    /\ LET file == featIn.files["load_vital_periodic"]
           kept == PeriodicKeepCohort(file, featOut)
       IN IF \/ EicuCompareRaises(kept, "observationoffset")
             \/ PeriodicFahrenheitRaises(PeriodicBeforeCutoff(kept, featIn.cutoff_h))
          THEN LoaderRaised
          ELSE CreateAndMerge(
                   sort_values(
                       Melt(load_vital_periodic(file, featOut, featIn.cutoff_h),
                            <<"temperature">>),
                       <<"patientunitstayid", "vital", "observationoffset">>, "offset"),
                   featOut, "patientunitstayid", "vital", "value", "periodic")

\* eICU add_charts_features, aperiodic vitals; the cohort table is returned.
EicuVitalAperiodicFeatures ==
    /\ pcA = "periodic"
    /\ LET file == featIn.files["load_vital_aperiodic"]
       IN IF EicuCompareRaises(AperiodicKeepCohort(file, featOut), "observationoffset")
          THEN LoaderRaised
          ELSE CreateAndMerge(
                   sort_values(
                       Melt(load_vital_aperiodic(file, featOut, featIn.cutoff_h),
                            <<"noninvasivemean">>),
                       <<"patientunitstayid", "vital", "observationoffset">>, "offset"),
                   featOut, "patientunitstayid", "vital", "value", "done")

FeatNext ==
    \/ MimicAddChartsFeatures
    \/ EicuRespiratoryFeatures
    \/ EicuNurseFeatures
    \/ EicuVitalPeriodicFeatures
    \/ EicuVitalAperiodicFeatures

SpecFeat == FeatInit /\ [][FeatNext]_vars

-----------------------------------------------------------------------------
(* Claims about add_charts_features *)

\* A create_chart_features call of add_charts_features returned and its wide
\* table was merged onto the cohort table.
FeatMerged == pcA \in {"respiratory", "nurse", "periodic", "done"}

\* add_charts_features returned.
FeatReturned == pcA = "done"

\* The column names of the latest create_chart_features call.
FeatCols ==
    IF featIn.adapter = "mimic"
    THEN [stay |-> "stay_id", variable |-> "itemid"]
    ELSE [stay |-> "patientunitstayid",
          variable |-> CASE pcA = "respiratory" -> "respchartvaluelabel"
                         [] pcA = "nurse" -> "nursingchartcelltypevallabel"
                         [] OTHER -> "vital"]

\* The variables of the retained events, and whether a stay has one of a variable.
FeatVariables == {aggIn[i][FeatCols.variable] : i \in DOMAIN aggIn}
HasEvent(stay, v) ==
    \E i \in DOMAIN aggIn : aggIn[i][FeatCols.stay] = stay /\ aggIn[i][FeatCols.variable] = v

\* The five columns of a variable are in the row and hold a missing value.
AllFiveMissing(row, v) ==
    \A m \in DOMAIN Metrics :
        /\ ColumnName(Metrics[m], v) \in DOMAIN row
        /\ row[ColumnName(Metrics[m], v)].tag = "nan"

\* C13: in the wide table of create_chart_features and in the cohort table after
\* add_charts_features, an entity with no retained event for a variable that
\* another entity has gets a missing value (never 0) in all five columns of that
\* variable, and the entity's row is still present.
C13_AbsentVariableIsMissing ==
    FeatMerged =>
        \A v \in FeatVariables :
            /\ \A i \in DOMAIN aggIn :
                  LET stay == aggIn[i][FeatCols.stay]
                  IN ~HasEvent(stay, v) =>
                        \E k \in DOMAIN aggOut :
                            /\ aggOut[k][FeatCols.stay] = stay
                            /\ AllFiveMissing(aggOut[k], v)
            /\ \A i \in DOMAIN featIn.icustays_df :
                  LET stay == featIn.icustays_df[i][FeatCols.stay]
                  IN ~HasEvent(stay, v) =>
                        /\ i \in DOMAIN featOut
                        /\ featOut[i][FeatCols.stay] = stay
                        /\ AllFiveMissing(featOut[i], v)

\* Two variables were aggregated, one stay has events of one of them only and
\* another stay has no retained event at all.
C13_Witness ==
    /\ FeatReturned /\ featIn.adapter = "mimic"
    /\ FeatVariables = {"220045", "220050"}
    /\ \E i \in DOMAIN aggIn : ~HasEvent(aggIn[i].stay_id, "220050")
    /\ \E i \in DOMAIN featIn.icustays_df :
          \A v \in FeatVariables : ~HasEvent(featIn.icustays_df[i].stay_id, v)

\* A source of the call holds a time that is no timestamp (no number): the
\* loader raises, as settled for C8.
FeatSourceUnparseable ==
    IF featIn.adapter = "mimic"
    THEN \E i \in DOMAIN featIn.file : featIn.file[i].charttime = BadText
    ELSE \E l \in EicuLoaders : \E i \in DOMAIN featIn.files[l] :
            \E c \in {"respchartoffset", "nursingchartoffset", "observationoffset"} :
                c \in DOMAIN featIn.files[l][i] /\ featIn.files[l][i][c] = BadText

\* The returned table has the rows of the cohort table, in its order, with its
\* columns unchanged.
CohortRowsKept ==
    /\ Len(featOut) = Len(featIn.icustays_df)
    /\ \A i \in DOMAIN featIn.icustays_df :
          \A c \in DOMAIN featIn.icustays_df[i] :
              featOut[i][c] = featIn.icustays_df[i][c]

\* C14: add_charts_features (both adapters) returns exactly one row per row of
\* the cohort table passed in, with the same entity keys and unchanged cohort
\* column values: entities with no retained events are kept (also when no
\* entity has one), and no entity is duplicated by a feature merge.
C14_OneRowPerCohortRow ==
    /\ FeatMerged => CohortRowsKept
    /\ pcA = "raised" => FeatSourceUnparseable

-----------------------------------------------------------------------------
(* Claims about the selection of the diagnosis and the two code mappings *)

\* The first three characters of a code.
Take3(code) == [i \in 1..(IF Len(code) < 3 THEN Len(code) ELSE 3) |-> code[i]]

\* The icd10cm of the first row, in table order, of the legacy->intermediate
\* table whose diagnosis_code is the given text; missing when there is none.
TableFirst(text) ==
    LET hits == {k \in DOMAIN diagIn.icd_map : diagIn.icd_map[k].diagnosis_code = text}
    IN IF hits = {} THEN NullCode
       ELSE diagIn.icd_map[CHOOSE k \in hits : \A h \in hits : k <= h].icd10cm

\* The text of a code field before its first comma.
Token(code) ==
    LET commas == {i \in DOMAIN code : code[i] = ","}
    IN IF commas = {} THEN code
       ELSE SubSeq(code, 1, (CHOOSE i \in commas : \A j \in commas : i <= j) - 1)

\* A text without its leading and trailing blanks.
Trim(text) ==
    LET solid == {i \in DOMAIN text : text[i] # " "}
    IN IF solid = {} THEN <<>>
       ELSE SubSeq(text, CHOOSE i \in solid : \A j \in solid : i <= j,
                         CHOOSE i \in solid : \A j \in solid : j <= i)

\* The intermediate code add_diagnosis attached to a cohort row before the
\* category lookup; missing when the entity was dropped.
Attached(row) ==
    LET key == EntityKey(row)
        tbl == diagLocals.icustays_df
        at == {k \in DOMAIN tbl : EntityKey(tbl[k]) = key}
    IN IF at = {} THEN NullCode ELSE tbl[CHOOSE k \in at : TRUE].icd10_code

\* The (category, description) pairs the category table holds for a code.
CssPairs(code) ==
    {<<StripQuotes(diagIn.css_file[k].ccsr_category_1),
       StripQuotes(diagIn.css_file[k].ccsr_category_1_description)>> :
        k \in {h \in DOMAIN diagIn.css_file :
                  diagIn.css_file[h].icd_10_cm_code = Quoted(code)}}

\* The intermediate code a selected eICU code field resolves to.
EicuResolved(field) ==
    IF field = NullCode THEN NullCode ELSE TableFirst(Take3(Trim(Token(field))))

\* C15: in eICU add_diagnosis the diagnosis attached to a stay comes from a row
\* of that stay with priority 'Primary' and offset <= cutoff_h*60, and among
\* those from one with the maximum offset; a returned row belongs to a stay with
\* such a diagnosis and its category is one the table holds for that diagnosis.
C15_AttachedFromLatestPrimary ==
    pcD = "eicu" =>
        /\ \A k \in DOMAIN diagLocals.icustays_df :
              LET row == diagLocals.icustays_df[k]
                  cands == EicuCandidates(row.patientunitstayid)
              IN \E i \in cands :
                    /\ \A j \in cands : diagIn.diag_file[j].diagnosisoffset
                                            <= diagIn.diag_file[i].diagnosisoffset
                    /\ row.icd10_code = EicuResolved(diagIn.diag_file[i].icd9code)
        /\ \A i \in DOMAIN diagOut :
              /\ Attached(diagOut[i]) # NullCode
              /\ \/ diagOut[i].ccsr_category_1 = NullCode
                 \/ \E p \in CssPairs(Attached(diagOut[i])) :
                        diagOut[i].ccsr_category_1 = p[1]

\* A stay has a Primary row within the cutoff and a later or non-Primary row
\* that resolves to another code, and is returned with the former's category.
C15_Witness ==
    /\ pcD = "eicu"
    /\ \E i, j \in DOMAIN diagIn.diag_file :
          LET a == diagIn.diag_file[i]
              b == diagIn.diag_file[j]
          IN /\ a.patientunitstayid = 1 /\ b.patientunitstayid = 1
             /\ i \in EicuCandidates(1) /\ j \notin EicuCandidates(1)
             /\ a.diagnosisoffset < b.diagnosisoffset
             /\ EicuResolved(a.icd9code) = T83 /\ EicuResolved(b.icd9code) = M86
    /\ \E i \in DOMAIN diagOut :
          diagOut[i].patientunitstayid = 1 /\ diagOut[i].ccsr_category_1 = CatI

\* The candidate rows of a cohort row, and whether two of them share the
\* selection key of the chosen one.
CandidatesOf(row) ==
    IF diagIn.adapter = "eicu" THEN EicuCandidates(row.patientunitstayid)
    ELSE MimicCandidates(row.hadm_id)

ChosenOf(row) ==
    IF diagIn.adapter = "eicu" THEN EicuChosen(row.patientunitstayid)
    ELSE MimicChosen(row.hadm_id)

SelectionKey(i) ==
    IF diagIn.adapter = "eicu" THEN diagIn.diag_file[i].diagnosisoffset
    ELSE diagIn.diag_file[i].seq_num

Tied(row) ==
    /\ CandidatesOf(row) # {}
    /\ \E j \in CandidatesOf(row) :
          j # ChosenOf(row) /\ SelectionKey(j) = SelectionKey(ChosenOf(row))

\* The intermediate code a diagnosis row resolves to.
ResolvedOf(i) ==
    LET r == diagIn.diag_file[i]
    IN IF diagIn.adapter = "eicu" THEN EicuResolved(r.icd9code)
       ELSE IF r.icd_version = 9 THEN TableFirst(Take3(r.icd_code))
       ELSE r.icd_code

\* C16: when several candidate rows of one group tie on the selection key (equal
\* maximum offset in eICU, equal minimum seq_num in MIMIC), add_diagnosis
\* selects the tied row that comes first in the source's row order: the entity
\* gets the code that row resolves to.
C16_TieTakesFirstInSourceOrder ==
    DiagDone => \A i \in DOMAIN diagIn.icustays_df :
        LET row == diagIn.icustays_df[i]
        IN Tied(row) => Attached(row) = ResolvedOf(ChosenOf(row))

\* C17: an intermediate code whose category in the mapping table is empty or
\* only whitespace is treated like a code with no mapping row: every returned
\* row of an entity with such a code has a missing category and a missing
\* description.
C17_BlankCategoryIsMissing ==
    DiagDone => \A i \in DOMAIN diagOut :
        LET pairs == CssPairs(Attached(diagOut[i]))
        IN (pairs # {} /\ \A p \in pairs : Trim(p[1]) = <<>>) =>
              /\ diagOut[i].ccsr_category_1 = NullCode
              /\ diagOut[i].ccsr_category_1_description = NullCode

\* The legacy rows of diag_df after _standardize_icd, and the code of a row.
LegacyRows ==
    {i \in DOMAIN diagLocals.diag_df :
        diagIn.adapter = "mimic" => diagLocals.diag_df[i].icd_version = 9}

LegacyCode(i) ==
    IF diagIn.adapter = "eicu" THEN diagLocals.diag_df[i].icd9code
    ELSE diagLocals.diag_df[i].icd_code

\* C18: for every legacy code c, _standardize_icd sets icd10_code to the icd10cm
\* of the first row, in table order, of the legacy->intermediate table whose
\* diagnosis_code is the first three characters of c, and to a missing value
\* when no row matches; rows that share c get the same result.
C18_FirstTableRowOfPrefix ==
    DiagDone =>
        /\ \A i \in LegacyRows :
              diagLocals.diag_df[i].icd10_code = TableFirst(Take3(LegacyCode(i)))
        /\ \A i, j \in LegacyRows :
              LegacyCode(i) = LegacyCode(j) =>
                  diagLocals.diag_df[i].icd10_code = diagLocals.diag_df[j].icd10_code

\* Two legacy rows share a code whose prefix has two rows in the table and got
\* the icd10cm of the first of them, or one of them has no row and got none.
C18_Witness ==
    /\ DiagDone
    /\ \E i, j \in LegacyRows :
          /\ i # j /\ LegacyCode(i) = c9967 /\ LegacyCode(j) = c9967
          /\ diagLocals.diag_df[i].icd10_code = T83
          /\ diagLocals.diag_df[j].icd10_code = T83

\* C19: in MIMIC _standardize_icd a row with icd_version 10 keeps its icd_code as
\* icd10_code and is not looked up in the legacy->intermediate table; only rows
\* with icd_version 9 are converted; no other column and no row is changed.
C19_OnlyLegacyRowsConverted ==
    pcD = "mimic" =>
        /\ Len(diagLocals.diag_df) = Len(diagIn.diag_file)
        /\ \A i \in DOMAIN diagIn.diag_file :
              LET before == diagIn.diag_file[i]
                  after == diagLocals.diag_df[i]
              IN /\ \A c \in DOMAIN before : after[c] = before[c]
                 /\ DOMAIN after = DOMAIN before \cup {"icd10_code"}
                 /\ before.icd_version = 10 => after.icd10_code = before.icd_code
                 /\ before.icd_version = 9 =>
                        after.icd10_code = TableFirst(Take3(before.icd_code))

\* A version 10 row whose code is also a diagnosis_code of the table kept its
\* code, next to a version 9 row that was converted.
C19_Witness ==
    /\ pcD = "mimic"
    /\ \E i, j \in DOMAIN diagLocals.diag_df :
          /\ diagLocals.diag_df[i].icd_version = 10
          /\ diagLocals.diag_df[i].icd_code = T83
          /\ TableFirst(T83) = M86
          /\ diagLocals.diag_df[i].icd10_code = T83
          /\ diagLocals.diag_df[j].icd_version = 9
          /\ diagLocals.diag_df[j].icd_code = c9967
          /\ diagLocals.diag_df[j].icd10_code = T83

\* C20: in eICU add_diagnosis only the first comma-separated token of the
\* selected icd9code, trimmed, is resolved; a code field that is empty after
\* this reduction excludes the stay from the result.
C20_FirstTokenTrimmed ==
    pcD = "eicu" => \A i \in DOMAIN diagIn.icustays_df :
        LET row == diagIn.icustays_df[i]
            stay == row.patientunitstayid
        IN EicuCandidates(stay) # {} =>
              LET field == diagIn.diag_file[EicuChosen(stay)].icd9code
              IN field # NullCode =>
                    /\ Attached(row) = TableFirst(Take3(Trim(Token(field))))
                    /\ Trim(Token(field)) = <<>> =>
                          /\ Attached(row) = NullCode
                          /\ stay \notin ResultKeys

\* One stay's selected field holds a padded code followed by a second one and
\* got the code of the padded one; the other stay's field starts with a
\* separator and the stay is not returned.
C20_Witness ==
    /\ pcD = "eicu"
    /\ EicuCandidates(1) # {} /\ EicuCandidates(2) # {}
    /\ diagIn.diag_file[EicuChosen(1)].icd9code = c411
    /\ Attached([patientunitstayid |-> 1]) = M86
    /\ diagIn.diag_file[EicuChosen(2)].icd9code = cSep
    /\ 1 \in ResultKeys /\ 2 \notin ResultKeys

-----------------------------------------------------------------------------
(* Claims about the allow-list, shared admissions and the order of selection *)

\* A list was passed as diagnosis_codes.
ListGiven == DiagDone /\ ~diagIn.diagnosis_codes.is_none

\* C21: when add_diagnosis is given an allow-list of category codes, every
\* entity in the result has a category that is a member of the list, and every
\* entity that resolved to a listed category is in the result (with it).
C21_AllowListKeepsExactlyListed ==
    ListGiven =>
        /\ \A i \in DOMAIN diagOut :
              diagOut[i].ccsr_category_1 \in diagIn.diagnosis_codes.items
        /\ \A k \in DOMAIN diagLocals.mapped :
              diagLocals.mapped[k].ccsr_category_1 \in diagIn.diagnosis_codes.items
                  => \E i \in DOMAIN diagOut : diagOut[i] = diagLocals.mapped[k]

\* C21, for a list that is not empty: every entity in the result has a category
\* that is a member of the list, and every entity that resolved to a listed
\* category is in the result (with it).
C21_NonEmptyAllowList ==
    (ListGiven /\ diagIn.diagnosis_codes.items # {}) =>
        /\ \A i \in DOMAIN diagOut :
              diagOut[i].ccsr_category_1 \in diagIn.diagnosis_codes.items
        /\ \A k \in DOMAIN diagLocals.mapped :
              diagLocals.mapped[k].ccsr_category_1 \in diagIn.diagnosis_codes.items
                  => \E i \in DOMAIN diagOut : diagOut[i] = diagLocals.mapped[k]

\* A list with one category was passed; one entity resolved to it and is
\* returned, another resolved to a code without a category and is not.
C21_Witness ==
    /\ ListGiven /\ diagIn.diagnosis_codes.items = {CatI}
    /\ \E k \in DOMAIN diagLocals.mapped :
          /\ diagLocals.mapped[k].ccsr_category_1 = NullCode
          /\ EntityKey(diagLocals.mapped[k]) \notin ResultKeys
    /\ \E i \in DOMAIN diagOut : diagOut[i].ccsr_category_1 = CatI

\* The (category, description) pairs the result holds for a stay.
PairsOfStay(stay) ==
    {<<diagOut[i].ccsr_category_1, diagOut[i].ccsr_category_1_description>> :
        i \in {k \in DOMAIN diagOut : diagOut[k].stay_id = stay}}

\* Two cohort rows of different stays with one hadm_id.
SharedAdmission(a, b) == a.stay_id # b.stay_id /\ a.hadm_id = b.hadm_id

\* C22: in MIMIC add_diagnosis, when several cohort stays share one hadm_id,
\* every one of those stays that is in the result carries the same category and
\* description, resolved from a diagnosis row of that admission.
C22_SharedAdmissionSameDiagnosis ==
    pcD = "mimic" =>
        \A i, j \in DOMAIN diagIn.icustays_df :
            LET a == diagIn.icustays_df[i]
                b == diagIn.icustays_df[j]
            IN (SharedAdmission(a, b) /\ a.stay_id \in ResultKeys) =>
                  /\ b.stay_id \in ResultKeys => PairsOfStay(a.stay_id) = PairsOfStay(b.stay_id)
                  /\ \E d \in MimicCandidates(a.hadm_id) :
                        /\ Attached(a) = ResolvedOf(d)
                        /\ \A p \in PairsOfStay(a.stay_id) :
                              \/ p = <<NullCode, NullCode>>
                              \/ \E q \in CssPairs(Attached(a)) :
                                    p = <<ReplaceEmpty(q[1]), ReplaceEmpty(q[2])>>

\* Two stays of one admission are returned with a category, next to a
\* diagnosis row of another admission that resolves to another code.
C22_Witness ==
    /\ pcD = "mimic"
    /\ \E i, j \in DOMAIN diagIn.icustays_df :
          /\ SharedAdmission(diagIn.icustays_df[i], diagIn.icustays_df[j])
          /\ PairsOfStay(diagIn.icustays_df[i].stay_id) = {<<CatI, <<"i">> >>}
          /\ PairsOfStay(diagIn.icustays_df[j].stay_id) = {<<CatI, <<"i">> >>}
    /\ \E d \in DOMAIN diagIn.diag_file :
          diagIn.diag_file[d].hadm_id = 2 /\ ResolvedOf(d) = M86

\* C28: in eICU add_diagnosis the latest Primary row within the cutoff is
\* selected before rows without an icd9code are removed: a stay whose latest
\* in-window Primary row has a missing icd9code is excluded from the result,
\* whatever its earlier rows hold.
C28_SelectedBeforeNullCodesDropped ==
    pcD = "eicu" => \A i \in DOMAIN diagIn.icustays_df :
        LET stay == diagIn.icustays_df[i].patientunitstayid
        IN (EicuCandidates(stay) # {}
              /\ diagIn.diag_file[EicuChosen(stay)].icd9code = NullCode)
            => /\ stay \notin ResultKeys
               /\ Attached(diagIn.icustays_df[i]) = NullCode

\* A stay's latest in-window Primary row has no code, an earlier one resolves,
\* and the stay is not returned.
C28_Witness ==
    /\ pcD = "eicu"
    /\ \E a, b \in EicuCandidates(1) :
          /\ diagIn.diag_file[a].diagnosisoffset < diagIn.diag_file[b].diagnosisoffset
          /\ EicuResolved(diagIn.diag_file[a].icd9code) = T83
          /\ diagIn.diag_file[b].icd9code = NullCode
    /\ 1 \notin ResultKeys

\* C30: an empty allow-list passed as diagnosis_codes behaves like None: in both
\* cases the result is the table map_icd_to_css returned, so no entity is
\* removed because of its category.
C30_EmptyListLikeNone ==
    (DiagDone /\ diagIn.diagnosis_codes.items = {}) =>
        /\ diagOut = diagLocals.mapped
        /\ \A k \in DOMAIN diagLocals.icustays_df :
              EntityKey(diagLocals.icustays_df[k]) \in ResultKeys

\* An empty list was passed and a row whose category is missing is returned.
C30_Witness ==
    /\ ListGiven /\ diagIn.diagnosis_codes.items = {}
    /\ \E i, j \in DOMAIN diagOut :
          diagOut[i].ccsr_category_1 = NullCode /\ diagOut[j].ccsr_category_1 = CatI

-----------------------------------------------------------------------------
(* Claims about the order of the events passed to create_chart_features *)

\* The time and the value of a row of the latest create_chart_features call.
FeatTime(row) ==
    IF featIn.adapter = "mimic" THEN row.event_time_from_admit
    ELSE CASE pcA = "respiratory" -> row.respchartoffset.n
           [] pcA = "nurse" -> row.nursingchartoffset.n
           [] OTHER -> row.observationoffset.n

FeatValue(row) ==
    IF featIn.adapter = "mimic" THEN row.valuenum
    ELSE CASE pcA = "respiratory" -> row.respchartvalue
           [] pcA = "nurse" -> row.nursingchartvalue
           [] OTHER -> row.value

\* The non-null events of a stay and a variable in the table passed to the call.
NonNullEvents(stay, v) ==
    {i \in DOMAIN aggIn :
        /\ aggIn[i][FeatCols.stay] = stay
        /\ aggIn[i][FeatCols.variable] = v
        /\ FeatValue(aggIn[i]).tag = "num"}

\* C27: in both adapters' add_charts_features every create_chart_features call
\* gets its rows sorted ascending by (entity, variable, time offset), so that for
\* every entity and variable last_{variable} is the value of an event whose time
\* offset is the maximum among the entity's retained non-null events of the
\* variable, in the wide table and in the cohort table.
C27_LastIsLatestEvent ==
    FeatMerged =>
        /\ \A i, j \in DOMAIN aggIn :
              i < j =>
                  /\ aggIn[i][FeatCols.stay] <= aggIn[j][FeatCols.stay]
                  /\ (/\ aggIn[i][FeatCols.stay] = aggIn[j][FeatCols.stay]
                      /\ aggIn[i][FeatCols.variable] = aggIn[j][FeatCols.variable])
                     => FeatTime(aggIn[i]) <= FeatTime(aggIn[j])
        /\ \A k \in DOMAIN aggOut : \A v \in FeatVariables :
              LET stay == aggOut[k][FeatCols.stay]
                  events == NonNullEvents(stay, v)
              IN events # {} =>
                    \E e \in events :
                        /\ \A f \in events : FeatTime(aggIn[f]) <= FeatTime(aggIn[e])
                        /\ aggOut[k][ColumnName("last", v)] = Frac(FeatValue(aggIn[e]).n, 1)
                        /\ \A r \in DOMAIN featOut :
                              featOut[r][FeatCols.stay] = stay =>
                                  featOut[r][ColumnName("last", v)]
                                      = Frac(FeatValue(aggIn[e]).n, 1)

\* The source holds two events of one stay and variable, the later one first,
\* with different values, and the call returned.
C27_Witness ==
    /\ FeatReturned /\ featIn.adapter = "mimic"
    /\ Len(featIn.file) = 2
    /\ featIn.file[1].stay_id = featIn.file[2].stay_id
    /\ featIn.file[1].itemid = featIn.file[2].itemid
    /\ featIn.file[1].charttime.tag = "num" /\ featIn.file[2].charttime.tag = "num"
    /\ featIn.file[2].charttime.n < featIn.file[1].charttime.n
    /\ featIn.file[1].valuenum # featIn.file[2].valuenum
    /\ Len(aggIn) = 2
    /\ \E k \in DOMAIN aggOut :
          aggOut[k][ColumnName("last", featIn.file[1].itemid)]
              = Frac(featIn.file[1].valuenum.n, 1)

-----------------------------------------------------------------------------
(* Claims about duplicates in the table of load_charts *)

\* C29: the table returned by MIMIC load_charts never contains two identical
\* rows, for every source content and every chunking of it.
C29_NoIdenticalRows ==
    (pcL = "done" /\ IsMimic) =>
        \A i, j \in DOMAIN ret : i # j => ret[i] # ret[j]

-----------------------------------------------------------------------------
(* Patients: MIMIC add_patient_features and eICU load_patients *)

MIN_AGE == 15

\* A timestamp is a number of minutes; NaT is the missing timestamp.
NaT == [tag |-> "nat", n |-> 0]
Timestamp(t) == [tag |-> "time", n |-> t]

\* The text 'No death' in the column Time_to_death_(h).
NoDeath == [tag |-> "text", n |-> 0, d |-> 1]

TimeToDeathCol == "Time_to_death_(h)"

\* DataFrame.drop(columns=...)
DropColumns(df, columns) ==
    [i \in DOMAIN df |-> [c \in (DOMAIN df[i]) \ columns |-> df[i][c]]]

\* df[[...]]: the selection of columns
SelectColumns(df, columns) ==
    [i \in DOMAIN df |-> [c \in columns |-> df[i][c]]]

\* left.merge(right, on=key, how="left"): the rows of left in their order, each
\* joined with its matching rows of right in their order, or with missing
\* cells in the columns of right when it has none.
RECURSIVE MergeLeft(_, _, _, _)
MergeLeft(left, right, key, columns) ==
    IF left = <<>> THEN <<>>
    ELSE LET row == Head(left)
             matches == SelectSeq(right, LAMBDA r : r[key] = row[key])
             joined == IF matches = <<>>
                       THEN << row @@ [c \in columns |-> NaN] >>
                       ELSE [j \in DOMAIN matches |-> row @@ matches[j]]
         IN joined \o MergeLeft(Tail(left), right, key, columns)

\* filter_age_under_15: the age at the ICU stay is the anchor age moved by the
\* years between the anchor year and the year of the stay.
IcuAge(row) ==
    IF row.anchor_age = NaN \/ row.anchor_year = NaN THEN NaN
    ELSE Num(row.anchor_age.n + (row.icu_year - row.anchor_year.n))

filter_age_under_15(merged_df) ==
    LET aged == [i \in DOMAIN merged_df |->
                    merged_df[i] @@ [icu_age |-> IcuAge(merged_df[i])]]
        kept == SelectSeq(aged, LAMBDA r : r.icu_age # NaN /\ r.icu_age.n >= MIN_AGE)
    IN DropColumns(kept, {"icu_year", "anchor_age", "anchor_year"})

\* filter_death_during_stay: the mask of the rows whose deathtime is present
\* and lies between intime and outtime; the rows outside the mask are kept.
DeathDuringStay(row) ==
    /\ row.deathtime # NaT /\ row.deathtime # NaN
    /\ row.intime <= row.deathtime.n
    /\ row.deathtime.n <= row.outtime

filter_death_during_stay(merged_df) ==
    SelectSeq(merged_df, LAMBDA r : ~DeathDuringStay(r))

\* filter_multiple_icu_stay_per_admission: the admissions with one distinct
\* stay_id among the rows of merged_df, and the rows of those admissions.
UniqueCount(merged_df, hadm) ==
    Cardinality({merged_df[i].stay_id : i \in {k \in DOMAIN merged_df :
                                                   merged_df[k].hadm_id = hadm}})

filter_multiple_icu_stay_per_admission(merged_df) ==
    SelectSeq(merged_df, LAMBDA r : UniqueCount(merged_df, r.hadm_id) = 1)

\* time_to_death: the rows whose deathtime is missing or not before intime,
\* with the hours from intime to deathtime or 'No death'; the look-up of the
\* count of 'No death' raises KeyError when no row has it.
HoursBetween(from, to) == Frac(to - from, 60)

TimeToDeathCell(row) ==
    IF row.deathtime = NaT \/ row.deathtime = NaN THEN NoDeath
    ELSE HoursBetween(row.intime, row.deathtime.n)

time_to_death(merged_df) ==
    LET valid == SelectSeq(merged_df, LAMBDA r :
                    \/ r.deathtime = NaT \/ r.deathtime = NaN
                    \/ r.deathtime.n >= r.intime)
        valid_df == [i \in DOMAIN valid |->
                        valid[i] @@ [c \in {TimeToDeathCol} |-> TimeToDeathCell(valid[i])]]
    IN [raised |-> ~\E i \in DOMAIN valid_df : valid_df[i][TimeToDeathCol] = NoDeath,
        df |-> valid_df]

\* add_patient_features: the table it returns, whether it raised, and the
\* helpers it called.
MergedWithPatients(icustays_df, patients_df) ==
    MergeLeft(icustays_df,
              SelectColumns(patients_df, {"subject_id", "anchor_age", "anchor_year", "gender"}),
              "subject_id", {"anchor_age", "anchor_year", "gender"})

MergedWithAdmissions(merged_df, admission_df) ==
    MergeLeft(merged_df,
              SelectColumns(admission_df, {"hadm_id", "deathtime", "marital_status", "race"}),
              "hadm_id", {"deathtime", "marital_status", "race"})

add_patient_features(icustays_df, patients_df, admission_df, rm_early_die) ==
    LET merged_df == MergedWithAdmissions(
                         filter_age_under_15(MergedWithPatients(icustays_df, patients_df)),
                         admission_df)
    IN IF rm_early_die
       THEN LET alive == DropColumns(filter_death_during_stay(merged_df),
                                     {"outtime", "deathtime"})
            IN [raised |-> FALSE,
                df |-> filter_multiple_icu_stay_per_admission(alive),
                called |-> << "filter_age_under_15", "filter_death_during_stay",
                              "filter_multiple_icu_stay_per_admission" >>]
       ELSE LET single == filter_multiple_icu_stay_per_admission(merged_df)
                timed == time_to_death(single)
            IN [raised |-> timed.raised,
                df |-> IF timed.raised THEN <<>>
                       ELSE DropColumns(timed.df, {"outtime", "deathtime"}),
                called |-> << "filter_age_under_15",
                              "filter_multiple_icu_stay_per_admission",
                              "time_to_death" >>]

\* eICU load_patients: the selected columns, gender and age converted, the
\* pediatric rows removed, the times of day as durations; the function returns
\* here, before the length of stay is computed.
EicuPatientVariables ==
    {"patientunitstayid", "gender", "age", "unitadmittime24", "unitdischargetime24"}

ConvertGender(x) == IF x = "Female" THEN "F" ELSE "M"

\* pd.to_numeric of the age text, after "> 89" was replaced by 89
AgeToNumeric(x) ==
    IF x = "> 89" THEN 89
    ELSE IF x = "10" THEN 10
    ELSE IF x = "70" THEN 70
    ELSE 0

\* pd.to_timedelta of a time of day, in minutes
ToTimedelta(x) == x.h * 60 + x.m

load_patients(file) ==
    LET selected == SelectColumns(file, EicuPatientVariables)
        converted == [i \in DOMAIN selected |->
                         [selected[i] EXCEPT !.gender = ConvertGender(@),
                                             !.age = AgeToNumeric(@)]]
        adults == SelectSeq(converted, LAMBDA r : r.age >= MIN_AGE)
    IN [i \in DOMAIN adults |->
           [adults[i] EXCEPT !.unitadmittime24 = ToTimedelta(@),
                             !.unitdischargetime24 = ToTimedelta(@)]]

\* --- inputs ---

MaxPatRows == 2

\* A stay before and a stay after new year, each of twelve hours.
PatStayTimes ==
    { [intime |-> 0, outtime |-> 720, icu_year |-> 0],
      [intime |-> 1440, outtime |-> 2160, icu_year |-> 1] }

PatStayRows ==
    { [stay_id |-> 0, subject_id |-> 1, hadm_id |-> h,
       intime |-> t.intime, outtime |-> t.outtime, icu_year |-> t.icu_year] :
          h \in {1, 2}, t \in PatStayTimes }

\* The tables load_icustays can return: stay_id is unique, and two stays of
\* the one patient are not in the ICU at the same time.
PatIcustays ==
    { [i \in DOMAIN rows |-> [rows[i] EXCEPT !.stay_id = i]] :
        rows \in { s \in SeqsUpTo(PatStayRows, MaxPatRows) :
                     /\ s # <<>>
                     /\ \A i, j \in DOMAIN s : i # j => s[i].intime # s[j].intime } }

PatPatients ==
    { << [subject_id |-> 1, anchor_age |-> Num(a), anchor_year |-> Num(0),
          gender |-> "F", dod |-> NaT] >> : a \in {14, 20} }

\* The third admission has no ICU stay in the cohort.
PatAdmissions ==
    { << [hadm_id |-> 1, deathtime |-> d1, marital_status |-> "SINGLE",
          race |-> "OTHER", admittime |-> 0],
         [hadm_id |-> 2, deathtime |-> d2, marital_status |-> "SINGLE",
          race |-> "OTHER", admittime |-> 0],
         [hadm_id |-> 3, deathtime |-> Timestamp(90), marital_status |-> "SINGLE",
          race |-> "OTHER", admittime |-> 0] >> :
        d1 \in {NaT, Timestamp(90), Timestamp(1500)}, d2 \in {NaT, Timestamp(1500)} }

AgeTexts == {"10", "70", "> 89"}

\* unitdischargeoffset is the length of the ICU stay in minutes: one hour, one
\* day, and more than ten days.
EicuPatientRows ==
    { [patientunitstayid |-> 0, gender |-> g, age |-> a,
       unitadmittime24 |-> [h |-> 8, m |-> 30],
       unitdischargetime24 |-> [h |-> 9, m |-> 30],
       unitdischargeoffset |-> los] :
          g \in {"Female", "Male"}, a \in AgeTexts, los \in {60, 1440, 20000} }

EicuPatientFiles ==
    { [i \in DOMAIN rows |-> [rows[i] EXCEPT !.patientunitstayid = i]] :
        rows \in SeqsUpTo(EicuPatientRows, MaxPatRows) \ {<<>>} }

PatInit ==
    /\ PipeOff
    /\ pcP = "idle"
    /\ \/ \E stays \in PatIcustays, pats \in PatPatients, adms \in PatAdmissions,
             rm \in BOOLEAN :
             patIn = [source |-> "mimic", icustays_df |-> stays, patients |-> pats,
                      admissions |-> adms, rm_early_die |-> rm]
       \/ \E file \in EicuPatientFiles :
             patIn = [source |-> "eicu", file |-> file]
    /\ patDf = <<>> /\ patCalls = <<>>
    /\ pcD = "off" /\ diagIn = [adapter |-> "none"] /\ diagOut = <<>>
    /\ diagLocals = NoLocals
    /\ pcL = "off" /\ load = [loader |-> "none"] /\ pos = 0 /\ chunk = <<>>
    /\ count = 0 /\ results = <<>> /\ ret = <<>>
    /\ pcA = "off" /\ aggIn = <<>> /\ aggOut = <<>>
    /\ featIn = [adapter |-> "none"] /\ featOut = <<>>

CallAddPatientFeatures ==
    /\ pcP = "idle" /\ patIn.source = "mimic"
    /\ LET out == add_patient_features(patIn.icustays_df, patIn.patients,
                                       patIn.admissions, patIn.rm_early_die)
       IN /\ pcP' = IF out.raised THEN "raised" ELSE "done"
          /\ patDf' = out.df
          /\ patCalls' = out.called
    /\ UNCHANGED <<patIn, diagVars, loadVars, aggVars, pipeVars>>

CallLoadPatients ==
    /\ pcP = "idle" /\ patIn.source = "eicu"
    /\ pcP' = "done"
    /\ patDf' = load_patients(patIn.file)
    /\ patCalls' = <<>>
    /\ UNCHANGED <<patIn, diagVars, loadVars, aggVars, pipeVars>>

PatNext == CallAddPatientFeatures \/ CallLoadPatients

SpecPat == PatInit /\ [][PatNext]_vars

-----------------------------------------------------------------------------
(* Claims about the patient cohorts *)

PatReturned == pcP = "done"

PatFinished == pcP \in {"done", "raised"}

PatMimic == patIn.source = "mimic"

\* The length of the ICU stay, in minutes, that the source file gives a stay.
EicuLosOf(stay) ==
    LET i == CHOOSE k \in DOMAIN patIn.file : patIn.file[k].patientunitstayid = stay
    IN patIn.file[i].unitdischargeoffset

\* C24: every stay of the cohort load_patients hands to the rest of the eICU
\* pipeline has an ICU length of stay of at least 12 hours and at most 10 days.
C24_EicuStaysBetween12hAnd10d ==
    (PatReturned /\ patIn.source = "eicu") =>
        \A i \in DOMAIN patDf :
            LET los == EicuLosOf(patDf[i].patientunitstayid)
            IN 2 * los >= 24 * 60 /\ los <= 10 * 24 * 60

\* The stays of the input that share the admission of a stay.
PatStaysOfAdmission(hadm) ==
    {k \in DOMAIN patIn.icustays_df : patIn.icustays_df[k].hadm_id = hadm}

\* C25: every stay add_patient_features returns belongs to an admission with
\* exactly one ICU stay among the rows passed in, for either rm_early_die.
C25_ReturnedStayAloneInAdmission ==
    (PatReturned /\ PatMimic) =>
        \A i \in DOMAIN patDf :
            Cardinality(PatStaysOfAdmission(patDf[i].hadm_id)) = 1

\* The facts of an input stay, read from the three source tables.
PatDeathtime(k) ==
    LET hadm == patIn.icustays_df[k].hadm_id
        j == CHOOSE a \in DOMAIN patIn.admissions : patIn.admissions[a].hadm_id = hadm
    IN patIn.admissions[j].deathtime

PatDiedInStay(k) ==
    /\ PatDeathtime(k) # NaT
    /\ patIn.icustays_df[k].intime <= PatDeathtime(k).n
    /\ PatDeathtime(k).n <= patIn.icustays_df[k].outtime

PatAdult(k) ==
    LET j == CHOOSE p \in DOMAIN patIn.patients :
                 patIn.patients[p].subject_id = patIn.icustays_df[k].subject_id
    IN patIn.patients[j].anchor_age.n
           + (patIn.icustays_df[k].icu_year - patIn.patients[j].anchor_year.n) >= MIN_AGE

\* An adult stay whose admission has no other adult stay: the age filter and
\* the filter of admissions with several stays both keep it.
PatEligible(k) ==
    /\ PatAdult(k)
    /\ \A j \in PatStaysOfAdmission(patIn.icustays_df[k].hadm_id) :
          j # k => ~PatAdult(j)

PatReturnedIds == {patDf[i].stay_id : i \in DOMAIN patDf}

PatEarlyDieBranch ==
    (PatFinished /\ PatMimic /\ patIn.rm_early_die) =>
        /\ \A k \in DOMAIN patIn.icustays_df :
              PatDiedInStay(k) => k \notin PatReturnedIds
        /\ \A c \in DOMAIN patCalls : patCalls[c] # "time_to_death"

PatTimeToDeathRows ==
    \A i \in DOMAIN patDf :
        LET k == patDf[i].stay_id
        IN patDf[i][TimeToDeathCol] =
              IF PatDeathtime(k) = NaT THEN NoDeath
              ELSE [tag |-> "num",
                    n |-> (PatDeathtime(k).n - patIn.icustays_df[k].intime)
                              \div Gcd(PatDeathtime(k).n - patIn.icustays_df[k].intime, 60),
                    d |-> 60 \div Gcd(PatDeathtime(k).n - patIn.icustays_df[k].intime, 60)]

PatKeepsDeathsInStay ==
    \A k \in DOMAIN patIn.icustays_df :
        (PatDiedInStay(k) /\ PatEligible(k)) => k \in PatReturnedIds

\* C26: with rm_early_die=True no returned stay has its deathtime within
\* [intime, outtime] and time_to_death never runs; with rm_early_die=False
\* filter_death_during_stay never runs, the stays that died during the stay are
\* kept, and every returned row has the hours from intime to deathtime, or
\* 'No death', in Time_to_death_(h).
C26_DeathFilterOrTimeToDeath ==
    /\ PatEarlyDieBranch
    /\ (PatFinished /\ PatMimic /\ ~patIn.rm_early_die) =>
          /\ \A c \in DOMAIN patCalls : patCalls[c] # "filter_death_during_stay"
          /\ PatKeepsDeathsInStay
          /\ PatTimeToDeathRows

\* C26 for the calls that return: the statement holds whenever
\* add_patient_features does not raise.
C26_WhenReturned == PatReturned => C26_DeathFilterOrTimeToDeath

\* A call with rm_early_die=False returned a stay that died during the stay,
\* with its hours, next to a stay without a deathtime.
C26_ReturnedWitness ==
    /\ PatReturned /\ PatMimic /\ ~patIn.rm_early_die
    /\ \E i, j \in DOMAIN patDf :
          /\ PatDiedInStay(patDf[i].stay_id)
          /\ patDf[i][TimeToDeathCol] = [tag |-> "num", n |-> 3, d |-> 2]
          /\ patDf[j][TimeToDeathCol] = NoDeath

-----------------------------------------------------------------------------
(* The constructor of MimicLoad *)

MaxPipeStays == 2

PipeStays == 1..MaxPipeStays

\* A table is known by the function that returned it and by its stays.
NoTable == [by |-> "none", stays |-> {}]

\* The tables a pipeline function can return for the table it receives:
\* load_icustays reads the stays of the source, add_patient_features and
\* add_diagnosis remove rows, add_charts_features and
\* change_itemid_to_item_name add or rename columns.
Returns(fn, table) ==
    IF fn = "load_icustays"
    THEN {[by |-> fn, stays |-> S] : S \in SUBSET PipeStays}
    ELSE IF fn \in {"add_patient_features", "add_diagnosis"}
    THEN {[by |-> fn, stays |-> S] : S \in SUBSET table.stays}
    ELSE {[by |-> fn, stays |-> table.stays]}

AssignData_Keep(obj, table) == obj

\* self.data = ...
AssignData(obj, table) == [obj EXCEPT !.data = table]

\* The record of one call: the function, its keyword arguments and the table
\* it returned (NoTable when it raised).
CallOf(fn, kwargs, out) == [fn |-> fn, kwargs |-> kwargs, returned |-> out]

PipeInit ==
    /\ PatOff
    /\ pcM = "__init__"
    /\ \E codes \in AllowLists :
          self = [arg |-> codes, target |-> "", diagnosis_codes |-> codes,
                  data |-> NoTable, extra_information |-> NoTable]
    /\ calls = <<>>
    /\ pcD = "off" /\ diagIn = [adapter |-> "none"] /\ diagOut = <<>>
    /\ diagLocals = NoLocals
    /\ pcL = "off" /\ load = [loader |-> "none"] /\ pos = 0 /\ chunk = <<>>
    /\ count = 0 /\ results = <<>> /\ ret = <<>>
    /\ pcA = "off" /\ aggIn = <<>> /\ aggOut = <<>>
    /\ featIn = [adapter |-> "none"] /\ featOut = <<>>

PipeOthers == <<diagVars, loadVars, aggVars, patVars>>

\* __init__ up to the call of _load_preprocessed_data
EnterInit ==
    /\ pcM = "__init__"
    /\ self' = [self EXCEPT !.target = "CCSR CATEGORY 1",
                            !.diagnosis_codes = self.arg]
    /\ pcM' = "load_icustays"
    /\ UNCHANGED <<calls, PipeOthers>>

\* One pipeline call: it returns a table, which is assigned to self.data, or
\* it raises and the constructor is left.
Step(fn, kwargs, next) ==
    /\ pcM = fn
    /\ \/ \E out \in Returns(fn, self.data) :
             /\ calls' = Append(calls, CallOf(fn, kwargs, out))
             /\ self' = AssignData(self, out)
             /\ pcM' = next
       \/ /\ calls' = Append(calls, CallOf(fn, kwargs, NoTable))
          /\ pcM' = "raised"
          /\ UNCHANGED self
    /\ UNCHANGED PipeOthers

CallLoadIcustays ==
    Step("load_icustays", [mimic_root |-> "mimic_root"], "add_patient_features")

CallPipeAddPatientFeatures ==
    Step("add_patient_features",
         [mimic_root |-> "mimic_root", icustays_df |-> self.data],
         "add_diagnosis")

CallPipeAddDiagnosis ==
    Step("add_diagnosis",
         [mimic_root |-> "mimic_root", icustays_df |-> self.data,
          diagnosis_codes |-> self.diagnosis_codes],
         "extra_information")

\* self.extra_information: the groups of self.data by the target column
ComputeExtraInformation ==
    /\ pcM = "extra_information"
    /\ self' = [self EXCEPT !.extra_information =
                                [by |-> "groupby", stays |-> self.data.stays]]
    /\ pcM' = "add_charts_features"
    /\ UNCHANGED <<calls, PipeOthers>>

CallPipeAddChartsFeatures ==
    Step("add_charts_features",
         [mimic_root |-> "mimic_root", icustays_df |-> self.data,
          valid_items |-> "None"],
         "change_itemid_to_item_name")

CallChangeItemidToItemName ==
    Step("change_itemid_to_item_name",
         [mimic_root |-> "mimic_root", df |-> self.data],
         "constructed")

PipeNext ==
    \/ EnterInit
    \/ CallLoadIcustays
    \/ CallPipeAddPatientFeatures
    \/ CallPipeAddDiagnosis
    \/ ComputeExtraInformation
    \/ CallPipeAddChartsFeatures
    \/ CallChangeItemidToItemName

SpecLoad == PipeInit /\ [][PipeNext]_vars

-----------------------------------------------------------------------------
(* Claims about the constructor of MimicLoad *)

PipeOrder ==
    << "load_icustays", "add_patient_features", "add_diagnosis",
       "add_charts_features", "change_itemid_to_item_name" >>

\* The table a call received: icustays_df, or df for the last function.
PipeReceived(call) ==
    IF call.fn = "change_itemid_to_item_name" THEN call.kwargs.df
    ELSE call.kwargs.icustays_df

\* The calls made so far are the first functions of the pipeline, once each
\* and in its order, each after the first on the table the one before returned.
PipeCallsInOrder ==
    /\ Len(calls) <= Len(PipeOrder)
    /\ \A i \in DOMAIN calls :
          /\ calls[i].fn = PipeOrder[i]
          /\ i > 1 => PipeReceived(calls[i]) = calls[i - 1].returned
          /\ calls[i].fn = "add_charts_features" => calls[i].kwargs.valid_items = "None"

\* C23: constructing MimicLoad runs load_icustays, add_patient_features,
\* add_diagnosis, add_charts_features (valid_items=None) and
\* change_itemid_to_item_name once each and in that order, each on the table
\* the previous one returned; data is the table the last one returned and
\* target is 'CCSR CATEGORY 1'.
C23_PipelineOrderAndData ==
    /\ PipeCallsInOrder
    /\ pcM = "constructed" =>
          /\ Len(calls) = Len(PipeOrder)
          /\ self.data = calls[Len(calls)].returned
          /\ self.target = "CCSR CATEGORY 1"

\* The object is constructed and each of the first three steps returned other
\* stays than the step before.
C23_Witness ==
    /\ pcM = "constructed"
    /\ calls[1].returned.stays = PipeStays
    /\ calls[2].returned.stays # calls[1].returned.stays
    /\ calls[3].returned.stays # calls[2].returned.stays
    /\ self.data.by = "change_itemid_to_item_name"

====
